---- MODULE Spec2Model ----
(***************************************************************************)
(* Crawl job orchestrator of Mahaon_Parser: the persisted session row, the *)
(* CANCEL_FLAGS map, the run_parse / continue_parse worker threads and the *)
(* cancel / confirm / decline request handlers, for one session id.        *)
(*                                                                         *)
(* Every step of a thread is one access to shared state (a read or write   *)
(* of CANCEL_FLAGS, or one transaction under db_lock) together with the    *)
(* thread-local computation that follows it up to the next access.         *)
(* Request handlers and the workers they spawn run the same code and carry *)
(* no identity of their own, so they are kept as a bag of thread records.  *)
(***************************************************************************)
EXTENDS Integers, Sequences, FiniteSets, Bags, TLC

(* ---------------------------- bounds ----------------------------------- *)
\* most categories fetch_categories() finds on the modelled site
MaxCats == 2
\* number of cancel / confirm / decline requests issued for the session
MaxRequests == 2
\* a max_products small enough for the all-categories loop to stop on it
SmallLimit == 2
\* number of distinct product URLs handed to save_to_db
MaxProducts == 2
\* longest variant list of a product
MaxVariants == 2
\* most catalog pages a walk of the modelled site fetches
MaxSitePages == 2
\* most rows of the listing table of a catalog page
MaxRows == 2
\* number of session ids (one per /parse request)
MaxSessions == 2
\* minutes the clock runs for
MaxClock == 3
\* number of threads (workers and request handlers) that run at once
MaxThreads == 2

(* ------------------------ program constants ---------------------------- *)
\* "if len(product_urls) > 5" / "if total_processed > 5"
Threshold == 5

\* Python None for max_products
NoLimit == -1

\* longest list of product URLs a catalog walk of the modelled site returns:
\* the shortest list that passes the tests "> 5" of the confirmation gate
MaxUrls == Threshold + 1

\* the inputs of /parse: the mode (which of url / category are present) and
\* max_products (absent, or a number); the walk of a single catalog returns
\* under a limit a subset of what it returns without one
JobInputs == {<<"single_item", NoLimit>>, <<"one_catalog", NoLimit>>,
              <<"all_catalogs", NoLimit>>, <<"all_catalogs", SmallLimit>>,
              <<"all_catalogs", Threshold + 1>>}
\* category_name of the form
Categories == {"yarn"}

VARIABLES
    session,     \* the parse_sessions row of the session id
    flag,        \* CANCEL_FLAGS entry of the session id: "absent", "false", "true"
    job,         \* inputs of the /parse request that started the job
    run,         \* the run_parse thread
    reqs,        \* bag of the running request handlers and continue_parse workers
    nreq,        \* number of cancel / confirm / decline requests received
    nwrites,     \* number of committed save_to_db transactions
    ncleanups,   \* number of cleanup_incomplete calls
    hist,        \* what happened so far (history, read by the properties only)
    db,          \* the products and variants tables
    last,        \* the last call made to the storage layer and how it returned
    saving,      \* the save_to_db call in progress
    walk,        \* the locals of a fetch_catalog_page call and what it has done
    parse_sessions, \* the parse_sessions table with its timestamps, all sessions
    now,         \* datetime.now(), in minutes
    locks,       \* owner of db_lock and of cancel_lock (0: not held)
    threads      \* what each thread is doing at the storage and flag accesses

vars == <<session, flag, job, run, reqs, nreq, nwrites, ncleanups, hist, db, last,
         saving,
          walk, parse_sessions, now, locks, threads>>

(* ------------------------ list items ----------------------------------- *)
\* a bare URL string, as fetch_catalog_page returns it
StrItem(u) == [kind |-> "str", url |-> u, cat |-> 0]
\* the pair (url, category) built in the all-categories branch
TupleItem(u, c) == [kind |-> "tuple", url |-> u, cat |-> c]

\* json.dumps writes a tuple as a JSON array; json.loads reads it back as a list
json_dumps(urls) ==
    [k \in DOMAIN urls |->
        IF urls[k].kind = "tuple" THEN [urls[k] EXCEPT !.kind = "list"] ELSE urls[k]]

(* ------------------------ parse_sessions row --------------------------- *)
NoRow == [status |-> "none", product_urls |-> <<>>, progress |-> "none",
          category_name |-> "none"]

\* INSERT OR REPLACE of the whole row; absent arguments are stored as NULL
\* ("none"), a falsy product_urls as NULL (read back as the empty list)
\* (an UPDATE that leaves the columns not passed as they are)
update_session_status_keeps_columns(status, product_urls, progress, category_name) ==
    [status |-> status,
     product_urls |-> IF product_urls # <<>> THEN json_dumps(product_urls)
                      ELSE session.product_urls,
     progress |-> IF progress # "none" THEN progress ELSE session.progress,
     category_name |-> IF category_name # "none" THEN category_name
                       ELSE session.category_name]
update_session_status(status, product_urls, progress, category_name) ==
    [status |-> status,
     product_urls |-> IF product_urls # <<>> THEN json_dumps(product_urls) ELSE <<>>,
     progress |-> progress,
     category_name |-> category_name]

\* (status, product_urls, progress) of the row
get_session_status(row) ==
    IF row.status # "none"
    THEN [status |-> row.status, product_urls |-> row.product_urls,
          progress |-> row.progress]
    ELSE [status |-> "in_progress", product_urls |-> <<>>,
          progress |-> "collecting_urls"]

\* cancel_flags.get(session_id, False)
cancel_requested(f) == f = "true"

\* CANCEL_FLAGS.pop(session_id, None): the entry is removed if there is one
cancel_flags_pop(f) == "absent"

(* ------------------------ the confirmation gate ------------------------ *)
\* (the test written with >= instead of >)
NeedsConfirmationFromThreshold(n) == n >= Threshold
NeedsConfirmation(n) == n > Threshold

(* ------------------------ catalog walker (result only) ----------------- *)
\* lengths fetch_catalog_page can return under a product limit: the limit is
\* tested after each append, so a limit below 1 still lets one URL through
WalkLengths(max_products) ==
    IF max_products = NoLimit THEN 0..MaxUrls
    ELSE {n \in 0..MaxUrls : n <= (IF max_products < 1 THEN 1 ELSE max_products)}

\* the limit test of line 220 follows an append: the walker returns from
\* inside the page once a page has brought the list from c to n URLs and n
\* has reached max_products
LimitReached(max_products, c, n) ==
    max_products # NoLimit /\ n > c /\ n >= max_products

\* urls of catalog c: c = 0 is the catalog of a one_catalog job
CatalogUrl(c, k) == c * (MaxUrls + 1) + k
WalkUrls(c, n) == [k \in 1..n |-> CatalogUrl(c, k)]

(* ------------------------ product fetch -------------------------------- *)
\* outcomes of fetch_product_page once past its cancel test:
\*   "ok"       a product with a title
\*   "badtitle" a product whose title is the not-found sentinel
\*   "neterr"   requests.get failed; the handler's log_message() call with no
\*              arguments raises TypeError out of fetch_product_page
\* an item read back from JSON is a list, which line 380 passes whole as the url
FetchOutcomes(item) ==
    IF item.kind = "list" THEN {"neterr"} ELSE {"ok", "badtitle", "neterr"}

(* ------------------------ threads -------------------------------------- *)
IdleThread ==
    [kind |-> "none", pc |-> "idle",
     urls |-> <<>>, i |-> 0, success |-> FALSE, processed |-> 0,
     outcome |-> "none", exc |-> "none", category |-> "none",
     total |-> 0, ncats |-> 0, ci |-> 0, caturls |-> <<>>, cj |-> 0,
     rsuccess |-> FALSE, gotNone |-> FALSE, stopped |-> FALSE, walked |-> FALSE]

\* a thread that has ended: its locals are gone
DoneThread == [IdleThread EXCEPT !.pc = "done"]

\* threading.Thread(target=...).start() / a request handler entered
Started(bag, r) == bag (+) SetToBag({r})
\* the thread with record w has ended
Ended(bag, w) == bag (-) SetToBag({w})
\* the thread with record w has taken a step that left it with record r
Stepped(bag, w, r) == (bag (-) SetToBag({w})) (+) SetToBag({r})

\* the threads that run parse_product_urls: run_parse and the workers
Actors ==
    {[who |-> "run", rec |-> run]}
        \cup {[who |-> "req", rec |-> w] : w \in BagToSet(reqs)}

\* actor a goes on with record r
Update(a, r) ==
    IF a.who = "run"
    THEN run' = r /\ reqs' = reqs
    ELSE run' = run /\ reqs' = Stepped(reqs, a.rec, r)

\* the statements under "with cancel_lock": data_parser.py lines 93-97, 212-223
\* and 371-379; no other access to the flag map takes the lock
LockHeldAt == {"p_cancel0", "a_cat", "l_check"}

LoopPcs == {"l_check", "l_item", "l_commit"}
Running(r) == r.pc \notin {"idle", "done"}
Quiescent == ~Running(run) /\ reqs = EmptyBag

\* history: a cancel or decline request set the flag; a cancel request set it
\* while a worker was inside the ingestion loop; a worker passed a checkpoint
\* after that; an item failed; the row was put to awaiting_confirmation; a
\* confirm request started continue_parse; the length of the one_catalog
\* walk; an sqlite3.Error was raised by a write of the session row or left
\* the function that raised it
NoHist ==
    [cancelRequested |-> FALSE, cancelInLoop |-> FALSE, ckptAfter |-> FALSE,
     itemFailed |-> FALSE, gated |-> FALSE, confirmed |-> FALSE, walkLen |-> -1,
     dbFault |-> FALSE]

\* create_db: both tables empty.  The job orchestration above counts the
\* committed save_to_db transactions in nwrites and leaves the content of the
\* tables to the storage specification SpecStore below
NoTables == [products |-> {}, variants |-> {}]
NoCall == [op |-> "none", url |-> 0, title |-> "none", prev |-> "absent",
           ok |-> FALSE, path |-> "none", nvar |-> 0]
\* no save_to_db call in progress.  A call in progress stands at "entered"
\* (past the tests of lines 220 and 240, before "with db_lock") or at "tx"
\* (db_lock held, the transaction open, the product statement executed);
\* k is the number of variants the loop of line 297 has taken
NoSave == [pc |-> "idle", url |-> 0, title |-> "none", nvar |-> 0, k |-> 0]
\* no fetch_catalog_page call made yet.  The job orchestration takes the walk
\* page by page with the list collected so far (CatalogWalk,
\* AllCategoryWalk); the rows of a page, the pager and the limits are the
\* subject of the walker specification SpecWalk below.  pc is "w_loop" at
\* the head of a turn of the while loop and "w_request" at the request of
\* line 139; how is what ended the call and raised whether it ended with an
\* exception; site and catalog_url are the pages of the site and the page
\* the next request is for, when the pages are known beforehand
NoWalk ==
    [pc |-> "idle", max_pages |-> NoLimit, max_products |-> NoLimit,
     product_urls |-> <<>>, page_count |-> 0, nfetched |-> 0, ndisc |-> 0,
     rows |-> <<>>, how |-> "none", raised |-> FALSE, flagSet |-> FALSE,
     site |-> <<>>, catalog_url |-> 0]

\* threading.Lock() of db_write.py line 11 and of data_parser.py line 23
NoLocks == [db_lock |-> 0, cancel_lock |-> 0]
ThreadIds == 1..MaxThreads
\* a thread outside every storage function and checkpoint
IdleAccess == [op |-> "none", pc |-> "idle", tx |-> "none", raised |-> FALSE]

Init ==
    /\ session = NoRow
    /\ flag = "absent"
    /\ job = [mode |-> "none", max_products |-> NoLimit, category |-> "none"]
    /\ run = IdleThread
    /\ reqs = EmptyBag
    /\ nreq = 0
    /\ nwrites = 0
    /\ ncleanups = 0
    /\ hist = NoHist
    /\ db = NoTables
    /\ last = NoCall
    /\ saving = NoSave
    /\ walk = NoWalk
    /\ parse_sessions = {}
    /\ now = 0
    /\ locks = NoLocks
    /\ threads = [t \in ThreadIds |-> IdleAccess]

\* the state in which the storage functions and the walker are called: the
\* /parse route has written the row of the session and the flag False
\* (app.py lines 90-97) before it starts run_parse.  save_log raises ValueError for a session
\* without a row (logger.py lines 98-105), and with it every log_message
StartedRow == update_session_status("in_progress", <<>>, "collecting_urls", "yarn")

InitStarted ==
    /\ session = StartedRow
    /\ flag = "false"
    /\ job = [mode |-> "none", max_products |-> NoLimit, category |-> "none"]
    /\ run = IdleThread
    /\ reqs = EmptyBag
    /\ nreq = 0
    /\ nwrites = 0
    /\ ncleanups = 0
    /\ hist = NoHist
    /\ db = NoTables
    /\ last = NoCall
    /\ saving = NoSave
    /\ walk = NoWalk
    /\ parse_sessions = {}
    /\ now = 0
    /\ locks = NoLocks
    /\ threads = [t \in ThreadIds |-> IdleAccess]

\* POST /parse: create the row, clear the flag, start run_parse
Parse(mode, max_products, category) ==
    /\ job.mode = "none"
    /\ job' = [mode |-> mode, max_products |-> max_products, category |-> category]
    /\ session' = update_session_status("in_progress", <<>>, "collecting_urls", category)
    /\ flag' = "false"
    /\ run' = [IdleThread EXCEPT !.kind = "run", !.pc = "p_start"]
    /\ UNCHANGED <<reqs, nreq, nwrites, ncleanups, hist, db, last, saving, walk, parse_sessions, now, locks, threads>>

(* ------------------------ history -------------------------------------- *)
ItemFailed(h) == [h EXCEPT !.itemFailed = TRUE]
DbFault(h) == [h EXCEPT !.dbFault = TRUE]

(* ------------------------ database faults ------------------------------ *)
\* Every connection is sqlite3.connect("products.db") (db_write.py
\* get_db_connection): while another connection holds the database, or the
\* file cannot be written, a statement or a commit raises sqlite3.Error.
\* update_session_status and log_message have no handler of their own.  The
\* model lets the writes it tracks raise: the writes of the session row and
\* the transaction of save_to_db (and the log of the category count, see
\* AllCategories); each handler the exception meets starts with a
\* log_message, a write to the same database, which may raise in turn.
\*
\* where an sqlite3.Error ends that was raised in the run_parse thread:
\*   - inside the try block of parse_catalog, "except SQLiteError"
\*     (data_parser.py lines 309-311) logs and the result is returned; in the
\*     single product branch the inner handler (lines 143-150) does the same:
\*     "p_finally";
\*   - when that log_message raises, and for a raise outside the try block
\*     (line 87), the exception leaves parse_catalog and reaches "except
\*     Exception" of run_parse (app.py lines 120-128), which logs, writes the
\*     status error and cleans up: "r_err_status";
\*   - when the log_message of run_parse raises too, only its finally is
\*     left: "p_finally"
SqlRaisedRun(r) ==
    {[r EXCEPT !.exc = "SQLiteError", !.pc = p] : p \in {"p_finally", "r_err_status"}}

\* the same for a continue_parse thread: "except Exception" (app.py lines
\* 191-198) logs, writes the status error and cleans up, "k_err_status"; when
\* its log_message raises only the finally is left, "k_finally"
SqlRaisedWorker(w) ==
    {[w EXCEPT !.exc = "SQLiteError", !.pc = p] : p \in {"k_err_status", "k_finally"}}

SqlRaised(r) == IF r.kind = "confirm" THEN SqlRaisedWorker(r) ELSE SqlRaisedRun(r)

\* how the transaction of save_to_db can end (db_write.py lines 331-376):
\*   "none"      committed, True returned
\*   "sqlerror"  a statement or the commit raised: rolled back, False returned
\*   "logerror"  committed, then the log_message of lines 350-357 raised: the
\*               handler rolls back nothing, False returned
\*   "lograise"  as "logerror", and the handler's log_message raised too:
\*               committed, the exception leaves save_to_db
\*   "sqlraise"  as "sqlerror", and the handler's log_message raised too:
\*               nothing committed, the exception leaves save_to_db
CommitFaults == {"none", "sqlerror", "logerror", "lograise", "sqlraise"}
CommitWrites(fault) == IF fault \in {"none", "logerror", "lograise"} THEN 1 ELSE 0

(* ------------------------ parse_product_urls: after the loop ----------- *)
\* what the caller does with the result of parse_product_urls when r is the
\* thread's record at the return
AfterLoop(r) ==
    IF r.kind = "confirm" THEN [r EXCEPT !.pc = "k_final"]
    ELSE IF job.mode = "one_catalog"
    THEN [r EXCEPT !.rsuccess = r.success,
                   !.pc = IF r.success THEN "p_completed" ELSE "p_finally"]
    ELSE LET total == r.total + r.processed IN
         IF NeedsConfirmation(total)
         THEN [r EXCEPT !.total = total, !.pc = "a_gate"]
         ELSE IF r.cj < Len(r.caturls)
         THEN [r EXCEPT !.total = total, !.cj = r.cj + 1,
                        !.urls = <<TupleItem(r.caturls[r.cj + 1], r.ci)>>,
                        !.i = 1, !.success = TRUE, !.processed = 0,
                        !.outcome = "none", !.pc = "l_check"]
         ELSE IF r.ci < r.ncats
         THEN [r EXCEPT !.total = total, !.ci = r.ci + 1, !.pc = "a_cat"]
         ELSE [r EXCEPT !.total = total, !.rsuccess = TRUE, !.pc = "p_completed"]

\* the for statement takes the next item, or the loop ends
NextItem(r) ==
    IF r.i < Len(r.urls)
    THEN [r EXCEPT !.i = r.i + 1, !.outcome = "none", !.pc = "l_check"]
    ELSE AfterLoop(r)

\* parse_product_urls entered with the list urls: validation, then the loop
EnterLoop(r, urls, category) ==
    [r EXCEPT !.urls = urls, !.category = category, !.i = 1, !.success = TRUE,
              !.processed = 0, !.outcome = "none", !.pc = "l_check"]

\* the result dictionary of parse_product_urls after an item failed / was saved;
\* continue_parse drops the result, so it is not kept for its thread
ItemFailure(r) == IF r.kind = "confirm" THEN r ELSE [r EXCEPT !.success = FALSE]
ItemSaved(r) == IF r.kind = "confirm" THEN r ELSE [r EXCEPT !.processed = @ + 1]

(* ------------------------ save_to_db ----------------------------------- *)
\* save_to_db returns False without a write: the cancel flag, or the title
save_to_db_rejects(f, outcome) == cancel_requested(f) \/ outcome = "badtitle"

(* ------------------------ run_parse / parse_catalog -------------------- *)
\* line 87: the first statement of parse_catalog rewrites the row.  The call
\* stands before the try block of parse_catalog and update_session_status has
\* no handler of its own: with fault "sqlerror" its INSERT raises
\* sqlite3.Error (the database is locked or cannot be written), which leaves
\* parse_catalog and reaches "except Exception" of run_parse; when the
\* log_message of that handler (app.py lines 122-126) raises as well, lines
\* 127-128 are skipped and the thread ends through its finally
RunStart ==
    /\ run.pc = "p_start"
    /\ \E fault \in {"none", "sqlerror"} :
         IF fault = "none"
         THEN /\ session' = update_session_status("in_progress", <<>>,
                                                  "collecting_urls", "none")
              /\ run' = [run EXCEPT !.pc = "p_cancel0"]
              /\ hist' = hist
         ELSE /\ session' = session
              /\ \E r \in SqlRaisedRun(run) : run' = r
              /\ hist' = DbFault(hist)
    /\ UNCHANGED <<flag, job, reqs, nreq, nwrites, ncleanups, db, last, saving, walk, parse_sessions, now, locks, threads>>

\* lines 93-97 and the choice of branch
RunCancelCheck ==
    /\ run.pc = "p_cancel0"
    /\ run' = [run EXCEPT !.pc =
                 IF cancel_requested(flag) THEN "p_finally"
                 ELSE IF job.mode = "single_item" THEN "s_fetch"
                 ELSE IF job.mode = "one_catalog" THEN "o_walk"
                 ELSE "a_cats"]
    /\ UNCHANGED <<session, flag, job, reqs, nreq, nwrites, ncleanups, hist, db, last, saving, walk, parse_sessions, now, locks, threads>>

\* single product: fetch_product_page (lines 106-118)
SingleFetch ==
    /\ run.pc = "s_fetch"
    /\ IF cancel_requested(flag)
       THEN /\ run' = [run EXCEPT !.gotNone = TRUE, !.pc = "p_finally"]
            /\ hist' = ItemFailed(hist)
       ELSE \E o \in FetchOutcomes(StrItem(0)) :
              IF o = "neterr"
              THEN /\ run' = [run EXCEPT !.outcome = o, !.exc = "TypeError",
                                         !.pc = "p_err_status"]
                   /\ hist' = ItemFailed(hist)
              ELSE /\ run' = [run EXCEPT !.outcome = o, !.pc = "s_save"]
                   /\ hist' = hist
    /\ UNCHANGED <<session, flag, job, reqs, nreq, nwrites, ncleanups, db, last, saving, walk, parse_sessions, now, locks, threads>>

\* single product: save_to_db (lines 121-136) up to its last test of the
\* flag (db_write.py lines 220 and 299) and of the title
SingleSave ==
    /\ run.pc = "s_save"
    /\ IF save_to_db_rejects(flag, run.outcome)
       THEN /\ run' = [run EXCEPT !.pc = "p_finally"]
            /\ hist' = ItemFailed(hist)
       ELSE /\ run' = [run EXCEPT !.pc = "s_commit"]
            /\ hist' = hist
    /\ UNCHANGED <<session, flag, job, reqs, nreq, nwrites, ncleanups, db, last, saving, walk, parse_sessions, now, locks, threads>>

\* single product: the rest of save_to_db, executemany and conn.commit()
\* (db_write.py lines 331-376), which read the flag no more, and lines
\* 121-150 of parse_catalog: True counts the product; False leaves the result
\* a failure; an exception out of save_to_db is logged by "except
\* SQLiteError" of line 143, or passed on when that log_message raises
SingleCommit ==
    /\ run.pc = "s_commit"
    /\ \E fault \in CommitFaults :
         /\ nwrites' = nwrites + CommitWrites(fault)
         /\ IF fault = "none"
            THEN /\ run' = [run EXCEPT !.rsuccess = TRUE, !.processed = 1,
                                       !.pc = "p_completed"]
                 /\ hist' = hist
            ELSE IF fault \in {"sqlerror", "logerror"}
            THEN /\ run' = [run EXCEPT !.pc = "p_finally"]
                 /\ hist' = ItemFailed(hist)
            ELSE /\ \E r \in SqlRaisedRun(run) : run' = r
                 /\ hist' = DbFault(ItemFailed(hist))
    /\ UNCHANGED <<session, flag, job, reqs, nreq, ncleanups, db, last, saving, walk, parse_sessions, now, locks, threads>>

\* one catalog: fetch_catalog_page has returned n URLs (data_parser.py lines
\* 158-189): the gate test, or the call of parse_product_urls
CatalogWalked(n) ==
    LET urls == [k \in 1..n |-> StrItem(CatalogUrl(0, k))]
        r == [run EXCEPT !.walked = TRUE, !.urls = urls]
        cat == IF job.category = "" THEN "none" ELSE job.category
    IN IF NeedsConfirmation(n) THEN [r EXCEPT !.pc = "o_gate"]
       ELSE IF n = 0
       THEN [r EXCEPT !.exc = "ValueError", !.pc = "p_err_status"]
       ELSE EnterLoop(r, urls, cat)

\* one catalog: one turn of the loop of fetch_catalog_page (data_fetcher.py
\* lines 105-262; the list collected so far is kept in run.urls).  The flag is
\* read once per turn (lines 105 and 125), without a lock: found set, the
\* walker returns what it has.  Otherwise the page is requested and brings
\* the list to n URLs; the walker returns at the product limit, on a failed
\* request and on a page without pager-next, and else goes on to the next page
CatalogWalk ==
    /\ run.pc = "o_walk"
    /\ IF cancel_requested(flag)
       THEN /\ run' = CatalogWalked(Len(run.urls))
            /\ hist' = [hist EXCEPT !.walkLen = Len(run.urls)]
       ELSE \E n \in {m \in WalkLengths(job.max_products) : m >= Len(run.urls)},
               more \in BOOLEAN :
              IF more /\ ~LimitReached(job.max_products, Len(run.urls), n)
              THEN /\ run' = [run EXCEPT !.urls =
                                 [k \in 1..n |-> StrItem(CatalogUrl(0, k))]]
                   /\ hist' = hist
              ELSE /\ run' = CatalogWalked(n)
                   /\ hist' = [hist EXCEPT !.walkLen = n]
    /\ UNCHANGED <<session, flag, job, reqs, nreq, nwrites, ncleanups, db, last, saving, walk, parse_sessions, now, locks, threads>>

\* one catalog: lines 172-186, the row goes to awaiting_confirmation; with
\* fault "sqlerror" the INSERT of line 172 raises inside the try block
CatalogGate ==
    /\ run.pc = "o_gate"
    /\ \E fault \in {"none", "sqlerror"} :
         IF fault = "none"
         THEN /\ session' = update_session_status("awaiting_confirmation", run.urls,
                                                  "awaiting_confirmation", "none")
              /\ run' = [run EXCEPT !.pc = "p_finally"]
              /\ hist' = [hist EXCEPT !.gated = TRUE]
         ELSE /\ session' = session
              /\ \E r \in SqlRaisedRun(run) : run' = r
              /\ hist' = DbFault(hist)
    /\ UNCHANGED <<flag, job, reqs, nreq, nwrites, ncleanups, db, last, saving, walk, parse_sessions, now, locks, threads>>

\* all categories: fetch_categories (an empty list on any failure), then
\* lines 203-207: log_message writes the count to parse_logs; with n = -1
\* its INSERT raises sqlite3.Error (the database is locked or cannot be
\* written), which leaves the try block through "except SQLiteError", lines
\* 309-311: the message is set and the result returned, unless the
\* log_message of line 310 raises too and the exception reaches run_parse
AllCategories ==
    /\ run.pc = "a_cats"
    /\ \E n \in -1..MaxCats :
         IF n = -1
         THEN /\ \E r \in SqlRaisedRun(run) : run' = r
              /\ hist' = DbFault(hist)
         ELSE /\ run' = IF n = 0
                        THEN [run EXCEPT !.rsuccess = TRUE, !.pc = "p_completed"]
                        ELSE [run EXCEPT !.ncats = n, !.ci = 1, !.pc = "a_cat"]
              /\ hist' = hist
    /\ UNCHANGED <<session, flag, job, reqs, nreq, nwrites, ncleanups, db, last, saving, walk, parse_sessions, now, locks, threads>>

\* all categories: lines 213-233 and the argument max_products - total_processed
AllCategoryStart ==
    /\ run.pc = "a_cat"
    /\ IF cancel_requested(flag)
       THEN run' = [run EXCEPT !.pc = "p_finally"]
       ELSE IF job.max_products # NoLimit /\ job.max_products # 0
               /\ run.total >= job.max_products
       THEN run' = [run EXCEPT !.rsuccess = TRUE, !.pc = "p_completed"]
       ELSE IF job.max_products = NoLimit
       THEN run' = [run EXCEPT !.exc = "TypeError", !.pc = "p_err_status"]
       ELSE run' = [run EXCEPT !.urls = <<>>, !.pc = "a_walk"]
    /\ hist' = [hist EXCEPT !.ckptAfter = @ \/ hist.cancelInLoop]
    /\ UNCHANGED <<session, flag, job, reqs, nreq, nwrites, ncleanups, db, last, saving, walk, parse_sessions, now, locks, threads>>

\* the product_urls list of a fetch_catalog_page call for category c that
\* has collected n URLs so far: bare URL strings (data_fetcher.py lines
\* 208-209); the pair with the category is built by parse_catalog, one URL
\* at a time, after the call has returned (data_parser.py line 250)
Collected(c, n) == [k \in 1..n |-> StrItem(CatalogUrl(c, k))]

\* all categories: fetch_catalog_page of the category has returned n URLs
\* and line 236 assigns them to cat_urls, which held the list of the
\* category before up to here (data_parser.py lines 236-250): the loop over
\* them starts with the first
AllCategoryWalked(n) ==
    AfterLoop([run EXCEPT !.walked = TRUE, !.caturls = WalkUrls(run.ci, n),
                          !.cj = 0, !.processed = 0])

\* all categories: one turn of the loop of fetch_catalog_page for the
\* category, as in CatalogWalk; the list the call has collected so far is
\* kept in run.urls and the limit is max_products - total_processed
AllCategoryWalk ==
    /\ run.pc = "a_walk"
    /\ IF cancel_requested(flag)
       THEN run' = AllCategoryWalked(Len(run.urls))
       ELSE \E n \in {m \in WalkLengths(job.max_products - run.total) :
                         m >= Len(run.urls)},
               more \in BOOLEAN :
              IF more /\ ~LimitReached(job.max_products - run.total,
                                       Len(run.urls), n)
              THEN run' = [run EXCEPT !.urls = Collected(run.ci, n)]
              ELSE run' = AllCategoryWalked(n)
    /\ UNCHANGED <<session, flag, job, reqs, nreq, nwrites, ncleanups, hist, db, last, saving, walk, parse_sessions, now, locks, threads>>

\* all categories: lines 272-288, the gate after total_processed passed 5;
\* with fault "sqlerror" the INSERT of line 273 raises inside the try block
AllGate ==
    /\ run.pc = "a_gate"
    /\ \E fault \in {"none", "sqlerror"} :
         IF fault = "none"
         THEN /\ session' = update_session_status(
                      "awaiting_confirmation",
                      [k \in DOMAIN run.caturls |-> TupleItem(run.caturls[k], run.ci)],
                      "awaiting_confirmation", "none")
              /\ run' = [run EXCEPT !.pc = "p_finally"]
              /\ hist' = [hist EXCEPT !.gated = TRUE]
         ELSE /\ session' = session
              /\ \E r \in SqlRaisedRun(run) : run' = r
              /\ hist' = DbFault(hist)
    /\ UNCHANGED <<flag, job, reqs, nreq, nwrites, ncleanups, db, last, saving, walk, parse_sessions, now, locks, threads>>

\* lines 297-298; with fault "sqlerror" the INSERT of line 298 raises inside
\* the try block and the row stays as it was
RunCompleted ==
    /\ run.pc = "p_completed"
    /\ \E fault \in {"none", "sqlerror"} :
         IF fault = "none"
         THEN /\ session' = update_session_status("completed", <<>>, "done", "none")
              /\ run' = [run EXCEPT !.pc = "p_finally"]
              /\ hist' = hist
         ELSE /\ session' = session
              /\ \E r \in SqlRaisedRun(run) : run' = r
              /\ hist' = DbFault(hist)
    /\ UNCHANGED <<flag, job, reqs, nreq, nwrites, ncleanups, db, last, saving, walk, parse_sessions, now, locks, threads>>

\* line 318, reached through "except Exception"; with fault "sqlerror" the
\* INSERT raises inside the handler: line 319 is skipped and the exception
\* leaves parse_catalog for run_parse
RunErrorStatus ==
    /\ run.pc = "p_err_status"
    /\ \E fault \in {"none", "sqlerror"} :
         IF fault = "none"
         THEN /\ session' = update_session_status("error", <<>>, "none", "none")
              /\ run' = [run EXCEPT !.pc = "p_err_cleanup"]
              /\ hist' = hist
         ELSE /\ session' = session
              /\ \E r \in SqlRaisedRun(run) : run' = r
              /\ hist' = DbFault(hist)
    /\ UNCHANGED <<flag, job, reqs, nreq, nwrites, ncleanups, db, last, saving, walk, parse_sessions, now, locks, threads>>

\* line 319
RunErrorCleanup ==
    /\ run.pc = "p_err_cleanup"
    /\ ncleanups' = ncleanups + 1
    /\ run' = [run EXCEPT !.pc = "p_finally"]
    /\ UNCHANGED <<session, flag, job, reqs, nreq, nwrites, hist, db, last, saving, walk, parse_sessions, now, locks, threads>>

\* run_parse, "except Exception": app.py line 127; with fault "sqlerror" the
\* INSERT raises inside the handler, line 128 is skipped, the finally runs
RunParseErrorStatus ==
    /\ run.pc = "r_err_status"
    /\ \E fault \in {"none", "sqlerror"} :
         IF fault = "none"
         THEN /\ session' = update_session_status("error", <<>>, "none", "none")
              /\ run' = [run EXCEPT !.pc = "r_err_cleanup"]
              /\ hist' = hist
         ELSE /\ session' = session
              /\ run' = [run EXCEPT !.pc = "p_finally"]
              /\ hist' = DbFault(hist)
    /\ UNCHANGED <<flag, job, reqs, nreq, nwrites, ncleanups, db, last, saving, walk, parse_sessions, now, locks, threads>>

\* run_parse, "except Exception": app.py line 128
RunParseErrorCleanup ==
    /\ run.pc = "r_err_cleanup"
    /\ ncleanups' = ncleanups + 1
    /\ run' = [run EXCEPT !.pc = "p_finally"]
    /\ UNCHANGED <<session, flag, job, reqs, nreq, nwrites, hist, db, last, saving, walk, parse_sessions, now, locks, threads>>

\* run_parse's finally: CANCEL_FLAGS.pop(session_id, None)
RunFinally ==
    /\ run.pc = "p_finally"
    /\ flag' = cancel_flags_pop(flag)
    /\ run' = DoneThread
    /\ UNCHANGED <<session, job, reqs, nreq, nwrites, ncleanups, hist, db, last, saving, walk, parse_sessions, now, locks, threads>>

(* ------------------------ parse_product_urls: the loop ----------------- *)
\* lines 370-378: the checkpoint at the head of the loop body
LoopCheck(a) ==
    /\ a.rec.pc = "l_check"
    /\ Update(a, IF cancel_requested(flag)
                 THEN AfterLoop([a.rec EXCEPT !.stopped = TRUE])
                 ELSE [a.rec EXCEPT !.pc = "l_item"])
    /\ hist' = [hist EXCEPT !.ckptAfter = @ \/ hist.cancelInLoop]
    /\ UNCHANGED <<session, flag, job, nreq, nwrites, ncleanups, db, last, saving, walk, parse_sessions, now, locks, threads>>

\* lines 389-418 and 433-439: the sleep, fetch_product_page, save_to_db up to
\* its last test of the flag.  fetch_product_page tests the flag when entered,
\* save_to_db when entered and once per variant inside its transaction; a
\* flag found set at any of these tests has one effect (no write, the item
\* failed, the loop goes on), so the tests are taken as one, at the moment of
\* the last test made
LoopItem(a) ==
    /\ a.rec.pc = "l_item"
    /\ \E o \in FetchOutcomes(a.rec.urls[a.rec.i]) :
         IF o = "neterr" \/ save_to_db_rejects(flag, o)
         THEN /\ Update(a, NextItem(ItemFailure(a.rec)))
              /\ hist' = ItemFailed(hist)
         ELSE /\ Update(a, [a.rec EXCEPT !.pc = "l_commit"])
              /\ hist' = hist
    /\ UNCHANGED <<session, flag, job, nreq, nwrites, ncleanups, db, last, saving, walk, parse_sessions, now, locks, threads>>

\* the rest of save_to_db: executemany and conn.commit() (db_write.py lines
\* 331-376) read the flag no more.  True counts the item, False fails it
\* (data_parser.py lines 404-418).  An exception out of save_to_db is met by
\* "except SQLiteError" of line 426, which logs, fails the item and lets the
\* loop go on; when that log_message raises, the exception leaves
\* parse_product_urls and the items left are not attempted
LoopCommit(a) ==
    /\ a.rec.pc = "l_commit"
    /\ \E fault \in CommitFaults, caught \in BOOLEAN :
         /\ nwrites' = nwrites + CommitWrites(fault)
         /\ IF fault = "none"
            THEN /\ Update(a, NextItem(ItemSaved(a.rec)))
                 /\ hist' = hist
            ELSE IF fault \in {"sqlerror", "logerror"} \/ caught
            THEN /\ Update(a, NextItem(ItemFailure(a.rec)))
                 /\ hist' = ItemFailed(hist)
            ELSE /\ \E r \in SqlRaised(a.rec) : Update(a, r)
                 /\ hist' = DbFault(ItemFailed(hist))
    /\ UNCHANGED <<session, flag, job, nreq, ncleanups, db, last, saving, walk, parse_sessions, now, locks, threads>>

(* ------------------------ POST /cancel_parse --------------------------- *)
\* a request can be made once the job exists
MayArrive ==
    /\ job.mode # "none"
    /\ nreq < MaxRequests

\* line 247: CANCEL_FLAGS[parse_session_id] = True
CancelSet ==
    /\ MayArrive
    /\ nreq' = nreq + 1
    /\ flag' = "true"
    /\ reqs' = Started(reqs, [IdleThread EXCEPT !.kind = "cancel", !.pc = "x_status"])
    /\ hist' = [hist EXCEPT !.cancelRequested = TRUE,
                            !.cancelInLoop = @ \/ \E a \in Actors : a.rec.pc \in LoopPcs]
    /\ UNCHANGED <<session, job, run, nwrites, ncleanups, db, last, saving, walk, parse_sessions, now, locks, threads>>

\* line 248 (cancel) and line 212 (decline): the row is rewritten.  Neither
\* handler has a try block: with fault "sqlerror" the INSERT raises, the
\* request ends with the exception and the pop of line 255 (221) is not
\* reached
CancelStatus(w) ==
    /\ w.pc = "x_status"
    /\ \E fault \in {"none", "sqlerror"} :
         IF fault = "none"
         THEN /\ session' = update_session_status("canceled", <<>>, "none", "none")
              /\ reqs' = Stepped(reqs, w, [w EXCEPT !.pc = "x_cleanup"])
              /\ hist' = hist
         ELSE /\ session' = session
              /\ reqs' = Ended(reqs, w)
              /\ hist' = DbFault(hist)
    /\ UNCHANGED <<flag, job, run, nreq, nwrites, ncleanups, db, last, saving, walk, parse_sessions, now, locks, threads>>

\* line 249 (cancel) and line 213 (decline): cleanup_incomplete, a call of
\* its own that takes db_lock anew; it deletes the products rows with
\* is_complete = 0, of which save_to_db writes none
CancelCleanup(w) ==
    /\ w.pc = "x_cleanup"
    /\ ncleanups' = ncleanups + 1
    /\ reqs' = Stepped(reqs, w, [w EXCEPT !.pc = "x_pop"])
    /\ UNCHANGED <<session, flag, job, run, nreq, nwrites, hist, db, last, saving, walk, parse_sessions, now, locks, threads>>

\* line 255 (cancel) and line 221 (decline)
CancelPop(w) ==
    /\ w.pc = "x_pop"
    /\ flag' = cancel_flags_pop(flag)
    /\ reqs' = Ended(reqs, w)
    /\ UNCHANGED <<session, job, run, nreq, nwrites, ncleanups, hist, db, last, saving, walk, parse_sessions, now, locks, threads>>

(* ------------------------ POST /confirm_parse -------------------------- *)
\* lines 153-160 and 208-211: read the row, leave unless awaiting_confirmation;
\* action "confirm" starts continue_parse, any other action declines
ConfirmCheck(action) ==
    /\ MayArrive
    /\ nreq' = nreq + 1
    /\ LET st == get_session_status(session) IN
         IF st.status # "awaiting_confirmation"
         THEN /\ reqs' = reqs
              /\ hist' = hist
         ELSE IF action = "confirm"
         THEN /\ reqs' = Started(reqs, [IdleThread EXCEPT !.kind = action,
                                                          !.urls = st.product_urls,
                                                          !.pc = "k_update"])
              /\ hist' = [hist EXCEPT !.confirmed = TRUE]
         ELSE /\ reqs' = Started(reqs, [IdleThread EXCEPT !.kind = action,
                                                          !.pc = "d_set"])
              /\ hist' = [hist EXCEPT !.cancelRequested = TRUE]
    /\ UNCHANGED <<session, flag, job, run, nwrites, ncleanups, db, last, saving, walk, parse_sessions, now, locks, threads>>

\* line 211: CANCEL_FLAGS[parse_session_id] = True
DeclineSet(w) ==
    /\ w.pc = "d_set"
    /\ flag' = "true"
    /\ reqs' = Stepped(reqs, w, [w EXCEPT !.pc = "x_status"])
    /\ UNCHANGED <<session, job, run, nreq, nwrites, ncleanups, hist, db, last, saving, walk, parse_sessions, now, locks, threads>>

\* continue_parse, lines 163-168; with fault "sqlerror" the INSERT raises
\* sqlite3.Error, which reaches "except Exception" of continue_parse; when
\* the log_message of that handler (lines 192-196) raises as well, lines
\* 197-198 are skipped and the thread ends through its finally
ContinueUpdate(w) ==
    /\ w.pc = "k_update"
    /\ \E fault \in {"none", "sqlerror"} :
         IF fault = "none"
         THEN /\ session' = update_session_status("in_progress", w.urls,
                                                  "parsing_products", "none")
              /\ reqs' = Stepped(reqs, w, [w EXCEPT !.pc = "k_readcat"])
              /\ hist' = hist
         ELSE /\ session' = session
              /\ \E r \in SqlRaisedWorker(w) : reqs' = Stepped(reqs, w, r)
              /\ hist' = DbFault(hist)
    /\ UNCHANGED <<flag, job, run, nreq, nwrites, ncleanups, db, last, saving, walk, parse_sessions, now, locks, threads>>

\* continue_parse, lines 169-183: read category_name, call parse_product_urls
ContinueReadCategory(w) ==
    /\ w.pc = "k_readcat"
    /\ reqs' = Stepped(reqs, w, EnterLoop(w, w.urls, session.category_name))
    /\ UNCHANGED <<session, flag, job, run, nreq, nwrites, ncleanups, hist, db, last, saving, walk, parse_sessions, now, locks, threads>>

\* continue_parse, line 184: the flag is read once more, without the lock
ContinueFinalCheck(w) ==
    /\ w.pc = "k_final"
    /\ reqs' = Stepped(reqs, w, [w EXCEPT !.pc =
                 IF cancel_requested(flag) THEN "k_finally" ELSE "k_complete"])
    /\ UNCHANGED <<session, flag, job, run, nreq, nwrites, ncleanups, hist, db, last, saving, walk, parse_sessions, now, locks, threads>>

\* continue_parse, line 185; with fault "sqlerror" the INSERT raises inside
\* the try block
ContinueComplete(w) ==
    /\ w.pc = "k_complete"
    /\ \E fault \in {"none", "sqlerror"} :
         IF fault = "none"
         THEN /\ session' = update_session_status("complete", <<>>, "none", "none")
              /\ reqs' = Stepped(reqs, w, [w EXCEPT !.pc = "k_finally"])
              /\ hist' = hist
         ELSE /\ session' = session
              /\ \E r \in SqlRaisedWorker(w) : reqs' = Stepped(reqs, w, r)
              /\ hist' = DbFault(hist)
    /\ UNCHANGED <<flag, job, run, nreq, nwrites, ncleanups, db, last, saving, walk, parse_sessions, now, locks, threads>>

\* continue_parse, "except Exception": line 197; with fault "sqlerror" the
\* INSERT raises inside the handler, line 198 is skipped, the finally runs
ContinueErrorStatus(w) ==
    /\ w.pc = "k_err_status"
    /\ \E fault \in {"none", "sqlerror"} :
         IF fault = "none"
         THEN /\ session' = update_session_status("error", <<>>, "none", "none")
              /\ reqs' = Stepped(reqs, w, [w EXCEPT !.pc = "k_err_cleanup"])
              /\ hist' = hist
         ELSE /\ session' = session
              /\ reqs' = Stepped(reqs, w, [w EXCEPT !.pc = "k_finally"])
              /\ hist' = DbFault(hist)
    /\ UNCHANGED <<flag, job, run, nreq, nwrites, ncleanups, db, last, saving, walk, parse_sessions, now, locks, threads>>

\* continue_parse, "except Exception": line 198
ContinueErrorCleanup(w) ==
    /\ w.pc = "k_err_cleanup"
    /\ ncleanups' = ncleanups + 1
    /\ reqs' = Stepped(reqs, w, [w EXCEPT !.pc = "k_finally"])
    /\ UNCHANGED <<session, flag, job, run, nreq, nwrites, hist, db, last, saving, walk, parse_sessions, now, locks, threads>>

\* continue_parse's finally, line 200
ContinueFinally(w) ==
    /\ w.pc = "k_finally"
    /\ flag' = cancel_flags_pop(flag)
    /\ reqs' = Ended(reqs, w)
    /\ UNCHANGED <<session, job, run, nreq, nwrites, ncleanups, hist, db, last, saving, walk, parse_sessions, now, locks, threads>>

Next ==
    \/ \E inp \in JobInputs, c \in Categories : Parse(inp[1], inp[2], c)
    \/ RunStart
    \/ RunCancelCheck
    \/ SingleFetch
    \/ SingleSave
    \/ SingleCommit
    \/ CatalogWalk
    \/ CatalogGate
    \/ AllCategories
    \/ AllCategoryStart
    \/ AllCategoryWalk
    \/ AllGate
    \/ RunCompleted
    \/ RunErrorStatus
    \/ RunErrorCleanup
    \/ RunParseErrorStatus
    \/ RunParseErrorCleanup
    \/ RunFinally
    \/ \E a \in Actors : LoopCheck(a)
    \/ \E a \in Actors : LoopItem(a)
    \/ \E a \in Actors : LoopCommit(a)
    \/ CancelSet
    \/ \E w \in BagToSet(reqs) : CancelStatus(w)
    \/ \E w \in BagToSet(reqs) : CancelCleanup(w)
    \/ \E w \in BagToSet(reqs) : CancelPop(w)
    \/ \E a \in {"confirm", "decline"} : ConfirmCheck(a)
    \/ \E w \in BagToSet(reqs) : DeclineSet(w)
    \/ \E w \in BagToSet(reqs) : ContinueUpdate(w)
    \/ \E w \in BagToSet(reqs) : ContinueReadCategory(w)
    \/ \E w \in BagToSet(reqs) : ContinueFinalCheck(w)
    \/ \E w \in BagToSet(reqs) : ContinueComplete(w)
    \/ \E w \in BagToSet(reqs) : ContinueErrorStatus(w)
    \/ \E w \in BagToSet(reqs) : ContinueErrorCleanup(w)
    \/ \E w \in BagToSet(reqs) : ContinueFinally(w)

Spec == Init /\ [][Next]_vars

(* ======================== storage layer ================================ *)
\* what save_to_db and cleanup_incomplete do to the products and variants
\* tables, called with any product, in any order, with the cancel flag set
\* and removed around them as cancel_parse does

\* product URLs handed to save_to_db, numbered in the order in which they
\* are first handed to it with an empty table or after the one before is stored
StoreUrls == 1..MaxProducts
\* values of product.title: None, the empty string, the not-found sentinel
\* and two titles of real products
Titles == {"none", "", "notfound", "a", "b"}
\* product.variants: the variants with (article_number, variant_name) keys 1..n
VariantLists == {[k \in 1..n |-> [key |-> k]] : n \in 0..MaxVariants}

\* line 240: not product_data["title"] or product_data["title"] == sentinel
\* (the test that lets the empty and the missing title through)
title_rejected_sentinel_only(t) == t = "notfound"
title_rejected(t) == t \in {"none", ""} \/ t = "notfound"

\* the rows of the products table with this url
RowsOf(tables, url) == {p \in tables.products : p.url = url}

\* INTEGER PRIMARY KEY of a new row: one more than the largest id
NextId(tables) ==
    IF tables.products = {} THEN 1
    ELSE 1 + (CHOOSE m \in {p.id : p \in tables.products} :
                 \A p \in tables.products : p.id <= m)

\* lines 257-279: INSERT ... ON CONFLICT(url) DO UPDATE SET ..., is_complete = 1
\* (the statement with ON CONFLICT(url) DO NOTHING)
upsert_product_keep_first(tables, url, title) ==
    IF RowsOf(tables, url) # {} THEN tables
    ELSE [tables EXCEPT !.products =
             @ \cup {[id |-> NextId(tables), url |-> url, title |-> title,
                      is_complete |-> 1]}]
upsert_product(tables, url, title) ==
    IF RowsOf(tables, url) # {}
    THEN [tables EXCEPT !.products =
             {IF p.url = url THEN [p EXCEPT !.title = title, !.is_complete = 1]
              ELSE p : p \in @}]
    ELSE [tables EXCEPT !.products =
             @ \cup {[id |-> NextId(tables), url |-> url, title |-> title,
                      is_complete |-> 1]}]

\* lines 282-293: SELECT id FROM products WHERE url = ?
product_id(tables, url) == (CHOOSE p \in RowsOf(tables, url) : TRUE).id

\* lines 330-349: executemany INSERT ... ON CONFLICT(product_id,
\* article_number, variant_name) DO UPDATE SET ..., is_complete = 1
upsert_variants(tables, pid, vs) ==
    [tables EXCEPT !.variants =
        {v \in @ : ~(v.product_id = pid /\ \E k \in DOMAIN vs : vs[k].key = v.key)}
          \cup {[product_id |-> pid, key |-> vs[k].key, is_complete |-> 1] :
                   k \in DOMAIN vs}]

\* lines 74 and 392: FOREIGN KEY (product_id) REFERENCES products (id) ON
\* DELETE CASCADE under PRAGMA foreign_keys = ON: the variants left once the
\* products with the ids dead are deleted
\* (the delete with foreign keys off)
on_delete_cascade_off(variants, dead) == variants
on_delete_cascade(variants, dead) == {v \in variants : v.product_id \notin dead}

\* lines 394-399: DELETE FROM products WHERE is_complete = 0, with the
\* ON DELETE CASCADE of variants.product_id
\* (the statement with the test is_complete = 1)
cleanup_incomplete_inverted(tables) ==
    LET dead == {p \in tables.products : p.is_complete = 1} IN
      [products |-> tables.products \ dead,
       variants |-> on_delete_cascade(tables.variants, {p.id : p \in dead})]
cleanup_incomplete(tables) ==
    LET dead == {p \in tables.products : p.is_complete = 0} IN
      [products |-> tables.products \ dead,
       variants |-> on_delete_cascade(tables.variants, {p.id : p \in dead})]

\* the variant rows of the product with this url
VariantsOf(tables, url) ==
    {v \in tables.variants : \E p \in RowsOf(tables, url) : v.product_id = p.id}

\* lines 290, 305, 355, 368: conn.rollback() puts the tables back to what
\* they were at BEGIN TRANSACTION, whatever the statements since have written
\* (a rollback that keeps what was written)
rollback_keeps_written(atBegin, written) == written
rollback(atBegin, written) == atBegin

\* the record of a save_to_db call: its product, the title the row of that
\* url had before, whether it returned True, the statement it returned at,
\* and for a call that opened the transaction the length of its variant list
SaveCall(url, title, ok, path, vs) ==
    [op |-> "save", url |-> url, title |-> title,
     prev |-> IF RowsOf(db, url) = {} THEN "absent"
              ELSE (CHOOSE p \in RowsOf(db, url) : TRUE).title,
     ok |-> ok, path |-> path, nvar |-> Len(vs)]

orchvars == <<session, job, run, reqs, nreq, nwrites, ncleanups, hist, walk,
              parse_sessions, now, locks, threads>>

\* the variant list of the call in progress
variants_of(c) == [j \in 1..c.nvar |-> [key |-> j]]

\* save_to_db(product, product.variants, session_id, cancel_flags) entered:
\* lines 220-246, the test of the flag and the test of the title.  Nothing
\* has been written and no lock is held when the tests have passed.  A call
\* turned away logs before it returns False (lines 221 and 241), outside
\* every try block: with fault "lograise" that log_message raises
\* sqlite3.Error (the database is locked by another connection) and the
\* call ends with the exception
StoreSave(url, title, vs) ==
    /\ saving.pc = "idle"
    /\ url <= Cardinality(db.products) + 1
    /\ IF cancel_requested(flag)
       THEN /\ \E fault \in {"none", "lograise"} :
                 last' = SaveCall(url, title, FALSE,
                                  IF fault = "none" THEN "flag" ELSE "flagraise", <<>>)
            /\ saving' = saving
       ELSE IF title_rejected(title)
       THEN /\ \E fault \in {"none", "lograise"} :
                 last' = SaveCall(url, title, FALSE,
                                  IF fault = "none" THEN "title" ELSE "titleraise", <<>>)
            /\ saving' = saving
       ELSE /\ last' = SaveCall(url, title, FALSE, "entered", vs)
            /\ saving' = [pc |-> "entered", url |-> url, title |-> title,
                          nvar |-> Len(vs), k |-> 0]
    /\ UNCHANGED <<db, flag, orchvars>>

\* lines 249-293: db_lock taken, BEGIN TRANSACTION, the product statement and
\* the SELECT of its id.  What the transaction writes is seen by no other
\* connection before conn.commit(), so db keeps the committed rows.  With
\* fault "sqlerror" the product statement raises sqlite3.Error: the handler
\* of line 367 rolls back and the call returns False; with fault "sqlraise"
\* the log_message of the handler (line 369) raises as well and the call
\* ends with the exception, nothing committed
StoreBegin ==
    /\ saving.pc = "entered"
    /\ \E fault \in {"none", "sqlerror", "sqlraise"} :
         IF fault = "none"
         THEN /\ saving' = [saving EXCEPT !.pc = "tx"]
              /\ db' = db
              /\ last' = last
         ELSE /\ saving' = NoSave
              /\ db' = rollback(db, db)
              /\ last' = SaveCall(saving.url, saving.title, FALSE, fault,
                                  variants_of(saving))
    /\ UNCHANGED <<flag, orchvars>>

\* lines 297-328: one turn of the variant loop.  The flag is read once per
\* variant; found set, the transaction is rolled back and False returned.
\* With fault "lograise" the log_message of the handler of line 367 raises
\* after its rollback and the call ends with the exception
StoreVariant ==
    /\ saving.pc = "tx"
    /\ saving.k < saving.nvar
    /\ IF cancel_requested(flag)
       THEN /\ db' = rollback(db, upsert_product(db, saving.url, saving.title))
            /\ \E fault \in {"none", "lograise"} :
                 last' = SaveCall(saving.url, saving.title, FALSE,
                                  IF fault = "none" THEN "loopflag"
                                  ELSE "loopflagraise", variants_of(saving))
            /\ saving' = NoSave
       ELSE /\ db' = db
            /\ last' = last
            /\ saving' = [saving EXCEPT !.k = @ + 1]
    /\ UNCHANGED <<flag, orchvars>>

\* lines 331-374, after the variant loop, which read the flag no more:
\* executemany, conn.commit(), the log_message of lines 360-364 and the
\* return.  fault is what happens there:
\*   "sqlerror"  executemany raises sqlite3.Error at the last variant of the
\*               list, the rows of the variants before it written (with an
\*               empty list, conn.commit() raises); rollback, False
\*   "logerror"  conn.commit() has succeeded and the log_message of lines
\*               360-364, still inside the try block, raises sqlite3.Error
\*               from its INSERT into parse_logs: the handler of line 367
\*               calls conn.rollback(), which finds no open transaction, and
\*               returns False
\*   "lograise"  as "logerror", and the log_message of the handler (line
\*               369) raises as well: save_to_db ends with sqlite3.Error
\*   "sqlraise"  as "sqlerror", and the log_message of the handler raises
\*               as well: save_to_db ends with sqlite3.Error
StoreCommit ==
    /\ saving.pc = "tx"
    /\ saving.k = saving.nvar
    /\ \E fault \in CommitFaults :
         LET url == saving.url
             title == saving.title
             vs == variants_of(saving)
             written == upsert_product(db, url, title)
             pid == product_id(written, url)
             committed == upsert_variants(written, pid, vs)
         IN IF fault \in {"sqlerror", "sqlraise"}
            THEN /\ db' = rollback(db, IF vs = <<>> THEN written
                                       ELSE upsert_variants(written, pid,
                                                SubSeq(vs, 1, Len(vs) - 1)))
                 /\ last' = SaveCall(url, title, FALSE, fault, vs)
            ELSE IF fault \in {"logerror", "lograise"}
            THEN /\ db' = rollback(committed, committed)
                 /\ last' = SaveCall(url, title, FALSE, fault, vs)
            ELSE /\ db' = committed
                 /\ last' = SaveCall(url, title, TRUE, "commit", vs)
    /\ saving' = NoSave
    /\ UNCHANGED <<flag, orchvars>>

\* cancel_parse line 247 / confirm_parse line 211: no lock is taken
StoreCancelSet ==
    /\ flag' = "true"
    /\ last' = [NoCall EXCEPT !.op = "cancel_set"]
    /\ UNCHANGED <<db, saving, orchvars>>

\* cancel_parse line 249 / confirm_parse line 213 / parse_catalog line 319:
\* cleanup_incomplete waits for db_lock, which a save_to_db call holds from
\* line 249 to its return.  The function has a finally and no handler: with
\* fault "sqlraise" its DELETE or its commit raises sqlite3.Error and
\* nothing is deleted; with fault "lograise" the log_message of lines
\* 403-407, after the commit, raises
StoreCleanup ==
    /\ saving.pc # "tx"
    /\ \E fault \in {"none", "sqlraise", "lograise"} :
         /\ db' = IF fault = "sqlraise" THEN rollback(db, cleanup_incomplete(db))
                  ELSE cleanup_incomplete(db)
         /\ last' = [NoCall EXCEPT !.op = "cleanup", !.path = fault]
    /\ UNCHANGED <<flag, saving, orchvars>>

\* cancel_parse line 255 / confirm_parse line 221
StoreCancelPop ==
    /\ flag' = cancel_flags_pop(flag)
    /\ last' = [NoCall EXCEPT !.op = "cancel_pop"]
    /\ UNCHANGED <<db, saving, orchvars>>

NextStore ==
    \/ \E url \in StoreUrls, title \in Titles, vs \in VariantLists :
          StoreSave(url, title, vs)
    \/ StoreBegin
    \/ StoreVariant
    \/ StoreCommit
    \/ StoreCancelSet
    \/ StoreCleanup
    \/ StoreCancelPop

SpecStore == InitStarted /\ [][NextStore]_vars

(* ------------------------ a database file kept from before ------------- *)
\* products.db outlives the process: create_db creates the tables only if
\* they do not exist and keeps their rows.  The rows of such a file: up to
\* MaxProducts products, each complete or not (the column default is 0),
\* each with up to MaxVariants variants, each complete or not
StoredVariantFlags == UNION {[1..n -> {0, 1}] : n \in 0..MaxVariants}
StoredProducts == [1..MaxProducts -> {0, 1} \X StoredVariantFlags]
StoredTables ==
    {[products |-> {[id |-> k, url |-> k, title |-> "a", is_complete |-> f[k][1]] :
                       k \in 1..n},
      variants |-> UNION {{[product_id |-> k, key |-> j, is_complete |-> f[k][2][j]] :
                             j \in DOMAIN f[k][2]} : k \in 1..n}] :
        n \in 0..MaxProducts, f \in StoredProducts}

InitStored ==
    /\ session = StartedRow
    /\ flag = "false"
    /\ job = [mode |-> "none", max_products |-> NoLimit, category |-> "none"]
    /\ run = IdleThread
    /\ reqs = EmptyBag
    /\ nreq = 0
    /\ nwrites = 0
    /\ ncleanups = 0
    /\ hist = NoHist
    /\ db \in StoredTables
    /\ last = NoCall
    /\ saving = NoSave
    /\ walk = NoWalk
    /\ parse_sessions = {}
    /\ now = 0
    /\ locks = NoLocks
    /\ threads = [t \in ThreadIds |-> IdleAccess]

\* the storage steps of a cancel or decline request and of the error paths
NextCleanup ==
    \/ StoreCancelSet
    \/ StoreCleanup
    \/ StoreCancelPop

SpecCleanup == InitStored /\ [][NextCleanup]_vars

(* ======================== the parse_sessions table ===================== *)
\* update_session_status on the table of all sessions, with the created_at
\* and updated_at columns the job orchestration above leaves out

SessionIds == 1..MaxSessions
\* status values handed to update_session_status: the one /parse writes
\* first and the one cancel_parse writes
SessionStatuses == {"in_progress", "canceled"}

\* line 422: COALESCE((SELECT created_at FROM parse_sessions WHERE
\* session_id = ?), ?) with the datetime.now() of line 428 as the second
\* argument
\* (the statement without the COALESCE)
coalesce_created_at_now(rows, session_id, t) == t
coalesce_created_at(rows, session_id, t) ==
    IF \E r \in rows : r.session_id = session_id
    THEN (CHOOSE r \in rows : r.session_id = session_id).created_at
    ELSE t

\* lines 419-435: INSERT OR REPLACE on the primary key session_id; the
\* VALUES are computed from the table as it is before the row is replaced.
\* t1 is the datetime.now() of line 428, the default of the COALESCE, and
\* t2 the datetime.now() of line 429, the value of updated_at
insert_or_replace_session(rows, session_id, status, t1, t2) ==
    {r \in rows : r.session_id # session_id}
        \cup {[session_id |-> session_id, status |-> status,
                created_at |-> coalesce_created_at(rows, session_id, t1),
                updated_at |-> t2]}

sessionframe ==
    <<session, flag, job, run, reqs, nreq, nwrites, ncleanups, hist, db, last, saving, walk,
      locks, threads>>

\* a call update_session_status(session_id, status, ...).  The clock is read
\* twice while the argument tuple is built (lines 428 and 429), to the
\* minute: later = 1 when the minute changes between the two readings.  With
\* fault "sqlerror" the statement raises sqlite3.Error and the table is left
\* as it was
SessionUpdate(session_id, status, later, fault) ==
    /\ now + later <= MaxClock
    /\ parse_sessions' =
          IF fault = "none"
          THEN insert_or_replace_session(parse_sessions, session_id, status,
                                         now, now + later)
          ELSE parse_sessions
    /\ now' = now + later
    /\ UNCHANGED sessionframe

\* a minute passes
SessionTick ==
    /\ now < MaxClock
    /\ now' = now + 1
    /\ UNCHANGED <<parse_sessions, sessionframe>>

NextSession ==
    \/ \E sid \in SessionIds, st \in SessionStatuses, later \in {0, 1},
          fault \in {"none", "sqlerror"} : SessionUpdate(sid, st, later, fault)
    \/ SessionTick

SpecSession == Init /\ [][NextSession]_vars

(* ======================== the two locks ================================ *)
\* the functions that open a write transaction on products.db, and the
\* cancellation checkpoint, as the threads of the program run them side by
\* side: which lock each takes, what it does while it holds it, which
\* function it calls inside, how it leaves

\* save_to_db, cleanup_incomplete, update_session_status (db_write.py),
\* save_log (logger.py, called by every log_message with a session id) and
\* the checkpoints of parse_catalog and parse_product_urls
AccessOps ==
    {"save_to_db", "cleanup_incomplete", "update_session_status", "save_log",
     "checkpoint"}
\* the three functions of db_write.py whose body is a "with db_lock" block
SectionOps == {"save_to_db", "cleanup_incomplete", "update_session_status"}
\* the ones that write to the database on a connection of their own
WriteOps == SectionOps \cup {"save_log"}

\* the with statement that encloses the body of the function: db_lock at
\* db_write.py lines 249, 388 and 415, cancel_lock at data_parser.py lines
\* 93, 213 and 370; save_log takes no lock
\* (cleanup_incomplete without its with statement)
lock_of_cleanup_unlocked(op) ==
    IF op = "checkpoint" THEN "cancel_lock"
    ELSE IF op \in {"save_log", "cleanup_incomplete"} THEN "none"
    ELSE "db_lock"
lock_of(op) ==
    IF op = "checkpoint" THEN "cancel_lock"
    ELSE IF op = "save_log" THEN "none"
    ELSE "db_lock"

\* the function called inside the with block: save_to_db (lines 360, 369),
\* cleanup_incomplete (line 403) and the checkpoints (data_parser.py lines
\* 95, 216, 372) call log_message, which calls save_log (logger.py line
\* 158); update_session_status and save_log call no function of the program.
\* save_to_db reads the flag map at lines 220 and 299 itself, without
\* cancel_lock
\* (save_to_db reading the flag through a checkpoint, under cancel_lock, and
\* the checkpoint writing the status of the session under its lock)
callee_nested(op) ==
    IF op = "save_to_db" THEN "checkpoint"
    ELSE IF op = "checkpoint" THEN "update_session_status"
    ELSE "none"
callee(op) ==
    IF op \in {"save_to_db", "cleanup_incomplete", "checkpoint"} THEN "save_log"
    ELSE "none"

\* the lock a function waits for inside its with block: the one of the
\* function it calls there
inner_lock(op) == IF callee(op) = "none" THEN "none" ELSE lock_of(callee(op))

\* Lock.acquire() returns only when no thread holds the lock
lock_free(l) == IF l = "none" THEN TRUE ELSE locks[l] = 0
HeldBy(t) == {l \in DOMAIN locks : locks[l] = t}
\* the lock thread t stands waiting for
WaitsFor(t) ==
    IF threads[t].pc = "enter" THEN lock_of(threads[t].op)
    ELSE IF threads[t].pc = "logging" THEN inner_lock(threads[t].op)
    ELSE "none"

\* the product every save_to_db call of this part is made with, and the
\* tables after its transaction has committed
SavedProduct(tables) ==
    LET written == upsert_product(tables, 1, "a") IN
      upsert_variants(written, product_id(written, 1), <<[key |-> 1]>>)

lockframe ==
    <<job, run, reqs, nreq, nwrites, ncleanups, hist, last, saving, walk,
      parse_sessions, now>>

\* thread t calls one of the functions.  save_to_db tests the flag before
\* its with statement (line 220): found set, it goes to the log_message of
\* line 221 and returns without the lock
AccessCall(t, op) ==
    /\ threads[t].pc = "idle"
    /\ threads' = [threads EXCEPT ![t] =
          [IdleAccess EXCEPT !.op = op,
                             !.pc = IF op = "save_to_db" /\ cancel_requested(flag)
                                    THEN "logging" ELSE "enter"]]
    /\ UNCHANGED <<locks, session, db, flag, lockframe>>

\* thread t gets the lock it waits for and enters the with block; a function
\* that writes opens its connection and its transaction
AccessAcquire(t) ==
    /\ threads[t].pc = "enter"
    /\ lock_free(WaitsFor(t))
    /\ locks' = IF WaitsFor(t) = "none" THEN locks
                ELSE [locks EXCEPT ![WaitsFor(t)] = t]
    /\ threads' = [threads EXCEPT ![t] =
          [@ EXCEPT !.pc = "inside",
                    !.tx = IF threads[t].op \in WriteOps THEN "open" ELSE "none"]]
    /\ UNCHANGED <<session, db, flag, lockframe>>

\* the statements of the with block up to the end of the transaction:
\*   "commit"  the statements run and conn.commit() makes them visible: the
\*             product and its variants (db_write.py line 359), the DELETE
\*             (line 399), the row of the session (line 435), the log row
\*             (logger.py line 122)
\*   "fail"    a statement or the commit raises sqlite3.Error and nothing is
\*             written: save_to_db rolls back in its handler (line 368), as
\*             it does when it finds the flag set between two variants
\*             (lines 299-306) or a variant is refused (lines 349-356); the
\*             other three have no handler, their connection is closed, or
\*             dropped, with the transaction open, and the exception leaves
\*             the function
\* A checkpoint reads the flag and opens no transaction.  save_to_db goes on
\* to a log_message after either outcome (line 360 or line 369),
\* cleanup_incomplete after its commit (line 403), a checkpoint when it
\* found the flag set
AccessBody(t, outcome) ==
    /\ threads[t].pc = "inside"
    /\ LET th == threads[t]
           logs == IF th.op = "save_to_db" THEN TRUE
                   ELSE IF th.op = "cleanup_incomplete" THEN outcome = "commit"
                   ELSE IF th.op = "checkpoint" THEN cancel_requested(flag)
                   ELSE FALSE
       IN /\ th.op = "checkpoint" => outcome = "commit"
          /\ threads' = [threads EXCEPT ![t] =
                [th EXCEPT !.pc = IF logs THEN "logging" ELSE "done",
                           !.tx = IF th.op \notin WriteOps THEN "none"
                                  ELSE IF outcome = "commit" THEN "committed"
                                  ELSE "rolledback",
                           !.raised = outcome = "fail" /\ th.op # "save_to_db"]]
          /\ db' = IF outcome = "fail" THEN rollback(db, db)
                   ELSE IF th.op = "save_to_db" THEN SavedProduct(db)
                   ELSE IF th.op = "cleanup_incomplete" THEN cleanup_incomplete(db)
                   ELSE db
          /\ session' = IF outcome = "commit" /\ th.op = "update_session_status"
                        THEN update_session_status("canceled", <<>>, "none", "none")
                        ELSE session
    /\ UNCHANGED <<locks, flag, lockframe>>

\* the log_message call of the function: save_log runs on a connection of
\* its own, under the lock of its own if it had one, and returns or raises
\* sqlite3.Error.  Raised at line 221 or in the handler of save_to_db (line
\* 369), at line 403 of cleanup_incomplete after its commit, or in a
\* checkpoint, the exception leaves the function; raised at line 360 of
\* save_to_db it is caught at line 367, whose log_message is this call again
AccessLog(t, outcome) ==
    /\ threads[t].pc = "logging"
    /\ lock_free(WaitsFor(t))
    /\ threads' = [threads EXCEPT ![t] =
          [@ EXCEPT !.pc = "done", !.raised = outcome = "raise"]]
    /\ UNCHANGED <<locks, session, db, flag, lockframe>>

\* the function is left, by the end of the block, a return or an exception:
\* finally closes the connection and __exit__ releases the lock
AccessLeave(t) ==
    /\ threads[t].pc = "done"
    /\ locks' = [l \in DOMAIN locks |-> IF locks[l] = t THEN 0 ELSE locks[l]]
    /\ threads' = [threads EXCEPT ![t] = [@ EXCEPT !.pc = "idle"]]
    /\ UNCHANGED <<session, db, flag, lockframe>>

\* cancel_parse line 247 / confirm_parse line 211: the flag is set with no
\* lock taken
AccessCancelSet ==
    /\ flag # "true"
    /\ flag' = "true"
    /\ UNCHANGED <<locks, threads, session, db, lockframe>>

\* cancel_parse line 255 / confirm_parse line 221
AccessCancelPop ==
    /\ flag = "true"
    /\ flag' = cancel_flags_pop(flag)
    /\ UNCHANGED <<locks, threads, session, db, lockframe>>

NextLocks ==
    \/ \E t \in ThreadIds, op \in AccessOps : AccessCall(t, op)
    \/ \E t \in ThreadIds : AccessAcquire(t)
    \/ \E t \in ThreadIds, outcome \in {"commit", "fail"} : AccessBody(t, outcome)
    \/ \E t \in ThreadIds, outcome \in {"ok", "raise"} : AccessLog(t, outcome)
    \/ \E t \in ThreadIds : AccessLeave(t)
    \/ AccessCancelSet
    \/ AccessCancelPop

SpecLocks == InitStarted /\ [][NextLocks]_vars

(* ======================== catalog walker =============================== *)
\* fetch_catalog_page, statement by statement between its accesses to the
\* flag map and to the site, with the cancel flag set and removed around it
\* as cancel_parse does.  Product URLs are numbered in the order in which the
\* rows of the site first show them.

\* a row of the listing table: -1 a link to a product URL not shown before,
\* k >= 1 a link to the product URL k, 0 a row without a title cell or
\* without a link
RowValues == {-1, 0, 1}
PageRows == UNION {[1..n -> RowValues] : n \in 0..MaxRows}
\* what requests.get and the parse of a catalog page give: the request
\* fails, the page has no table, the table no tbody, or the rows of the
\* tbody; and the pager-next of the page: absent, without a link, or a link
PageOutcomes ==
    {[kind |-> k, rows |-> <<>>, next |-> "none"] :
        k \in {"fetchfail", "notable", "notbody"}}
      \cup {[kind |-> "rows", rows |-> r, next |-> n] :
              r \in PageRows, n \in {"none", "nolink", "page"}}
\* max_pages and max_products of the form: absent, or a string of digits
PageLimits == {NoLimit} \cup 0..MaxSitePages
ProductLimits == {NoLimit} \cup 0..SmallLimit

\* line 208: product_url not in product_urls
\* (the walker without the test)
already_listed_never(urls, url) == FALSE
already_listed(urls, url) == \E k \in DOMAIN urls : urls[k] = url

\* lines 197-229: the for loop over the rows of a page, from row i on; d is
\* the largest number of a product URL the rows have shown so far
RECURSIVE process_rows(_, _, _, _, _)
process_rows(urls, d, rows, i, max_products) ==
    IF i > Len(rows)
    THEN [product_urls |-> urls, ndisc |-> d, returned |-> FALSE]
    ELSE IF rows[i] = 0
    THEN process_rows(urls, d, rows, i + 1, max_products)
    ELSE LET url == IF rows[i] = -1 THEN d + 1 ELSE rows[i]
             d2 == IF url > d THEN url ELSE d
         IN IF already_listed(urls, url)
            THEN process_rows(urls, d2, rows, i + 1, max_products)
            ELSE IF max_products # NoLimit /\ Len(urls) + 1 >= max_products
            THEN [product_urls |-> Append(urls, url), ndisc |-> d2,
                  returned |-> TRUE]
            ELSE process_rows(Append(urls, url), d2, rows, i + 1, max_products)

\* the break statements of lines 118-189: the walk ends, the list is returned
walk_broken(w, how) == [w EXCEPT !.pc = "w_done", !.how = how]

\* a log_message of the walker raises sqlite3.Error (save_log finds the
\* database locked): fetch_catalog_page has no handler around its
\* log_message calls, the call ends with the exception and returns no list
walk_raised(w) == [w EXCEPT !.pc = "w_done", !.raised = TRUE]

\* what ends a walk at a log_message that is on no path to the return
FaultHow(how) == IF how = "none" THEN "log" ELSE how

walkframe ==
    <<session, job, run, reqs, nreq, nwrites, ncleanups, hist, db, last, saving,
      parse_sessions, now, locks, threads>>

\* the outcomes of a log_message call
LogFaults == {"none", "lograise"}

\* the call, lines 105-116: the flag is tested once before the loop.  site
\* is the site the call is made on when its pages are known beforehand (the
\* walk starts at its first page), or NoSite
WalkStart(max_pages, max_products, site, fault) ==
    /\ walk.pc = "idle"
    /\ LET w == [NoWalk EXCEPT !.max_pages = max_pages,
                               !.max_products = max_products,
                               !.site = site,
                               !.catalog_url = IF site = <<>> THEN 0 ELSE 1]
       IN IF cancel_requested(flag)
          THEN walk' = IF fault = "none"
                       THEN [w EXCEPT !.pc = "w_done", !.how = "entryflag"]
                       ELSE walk_raised([w EXCEPT !.how = "entryflag"])
          ELSE fault = "none" /\ walk' = [w EXCEPT !.pc = "w_loop"]
    /\ UNCHANGED <<flag, walkframe>>

\* the head of a turn of the while loop, lines 117-137: the page limit, the
\* flag, then the log_message that announces the request.  Each branch logs
\* (lines 119, 126, 133; the two breaks go on to the log_message of line
\* 271), and the log_message may raise
WalkTurn(fault) ==
    /\ walk.pc = "w_loop"
    /\ LET w == IF walk.max_pages # NoLimit /\ walk.page_count >= walk.max_pages
                THEN walk_broken(walk, "pages")
                ELSE IF cancel_requested(flag)
                THEN walk_broken(walk, "flag")
                ELSE [walk EXCEPT !.pc = "w_request"]
       IN walk' = IF fault = "none" THEN w
                  ELSE walk_raised([w EXCEPT !.how = FaultHow(w.how)])
    /\ UNCHANGED <<flag, walkframe>>

\* lines 139-276 for the page the request has brought: the table, the rows,
\* the pager
read_page(wk, page) ==
    LET w == [wk EXCEPT !.nfetched = @ + 1, !.rows = page.rows] IN
      IF page.kind # "rows"
      THEN walk_broken(w, page.kind)
      ELSE IF page.rows = <<>>
      THEN walk_broken(w, "norows")
      ELSE LET r == process_rows(wk.product_urls, wk.ndisc,
                                 page.rows, 1, wk.max_products)
               v == [w EXCEPT !.product_urls = r.product_urls,
                              !.ndisc = r.ndisc]
           IN IF r.returned
              THEN [v EXCEPT !.pc = "w_done", !.how = "limit"]
              ELSE IF page.next = "page"
              THEN [v EXCEPT !.page_count = @ + 1, !.pc = "w_loop"]
              ELSE [v EXCEPT !.page_count = @ + 1,
                             !.pc = "w_done",
                             !.how = IF page.next = "none"
                                     THEN "nonext" ELSE "nolink"]

\* the request of line 139 and what follows it up to the head of the next
\* turn or the end of the call.  The flag is not read between the test of
\* line 125 and the request.  fault is what the log_message calls do:
\*   "none"      every one returns
\*   "lograise"  the last one the page leads to raises: the one of the
\*               break taken (lines 142, 160, 175, 184), of the limit (219,
\*               224), of the pager (251, 257, 264) or the one before the
\*               return (271)
\*   "rowraise"  one inside the loop over the rows raises (lines 191, 203,
\*               210, 232, 238) when i rows have been taken
fetched(wk, page, fault, i) ==
    IF fault = "none" THEN read_page(wk, page)
    ELSE IF fault = "lograise"
    THEN LET v == read_page(wk, page) IN
           walk_raised([v EXCEPT !.how = FaultHow(v.how)])
    ELSE LET r == process_rows(wk.product_urls, wk.ndisc,
                               SubSeq(page.rows, 1, i), 1, wk.max_products)
         IN walk_raised([wk EXCEPT !.nfetched = @ + 1, !.rows = page.rows,
                                   !.product_urls = r.product_urls,
                                   !.ndisc = r.ndisc, !.how = "log"])

WalkFaults == {"none", "lograise", "rowraise"}

\* the request of a page of a site whose pages are not known beforehand:
\* any page may come back
WalkFetch(page, fault) ==
    /\ walk.pc = "w_request"
    /\ walk.site = <<>>
    /\ walk.nfetched < MaxSitePages
    /\ page.next = "page" => walk.nfetched + 1 < MaxSitePages
    /\ fault = "rowraise" => page.kind = "rows" /\ page.rows # <<>>
    /\ \E i \in (IF fault = "rowraise" THEN 0..Len(page.rows) ELSE {0}) :
          walk' = fetched(walk, page, fault, i)
    /\ UNCHANGED <<flag, walkframe>>

\* cancel_parse line 247, while or before the walker runs
WalkCancelSet ==
    /\ flag # "true"
    /\ flag' = "true"
    /\ walk' = [walk EXCEPT !.flagSet = @ \/ walk.pc \in {"w_loop", "w_request"}]
    /\ UNCHANGED walkframe

\* cancel_parse line 255
WalkCancelPop ==
    /\ flag = "true"
    /\ flag' = cancel_flags_pop(flag)
    /\ UNCHANGED <<walk, walkframe>>

NextWalk ==
    \/ \E mp \in PageLimits, n \in ProductLimits, fault \in LogFaults :
          WalkStart(mp, n, <<>>, fault)
    \/ \E fault \in LogFaults : WalkTurn(fault)
    \/ \E page \in PageOutcomes, fault \in WalkFaults : WalkFetch(page, fault)
    \/ WalkCancelSet
    \/ WalkCancelPop

SpecWalk == InitStarted /\ [][NextWalk]_vars

(* ------------------------ a site of finitely many pages ---------------- *)
\* The walker run with no page limit, no product limit and no cancel request
\* on a site whose catalog pages are fixed: every request of a page brings
\* the same rows and the same pager-next link.  Lines 246-254 assign
\* whatever href the link holds to catalog_url; the function keeps no record
\* of the URLs it has requested.

\* page p of a site of n pages: its request fails, or it lists product p,
\* alone or after product 1; its pager-next is absent (0), has no link (-1)
\* or links to one of the pages of the site, itself included
SitePages(p, n) ==
    {[kind |-> "fetchfail", rows |-> <<>>, next |-> 0]}
      \cup {[kind |-> "rows", rows |-> r, next |-> x] :
              r \in {<<p>>, <<1, p>>}, x \in -1..n}
Sites ==
    UNION {{s \in [1..n -> UNION {SitePages(p, n) : p \in 1..n}] :
               \A p \in 1..n : s[p] \in SitePages(p, n)} : n \in 1..MaxSitePages}

\* what the request of a page of the site brings
Served(pg) ==
    [kind |-> pg.kind, rows |-> pg.rows,
     next |-> IF pg.next = 0 THEN "none"
              ELSE IF pg.next = -1 THEN "nolink" ELSE "page"]

\* the counters of a walk are followed up to this value: page_count is read
\* only by the comparison with max_pages of line 118, so without a page
\* limit a larger count makes no difference to the walk
MaxTurns == MaxSitePages + 2
Followed(n) == IF n > MaxTurns THEN MaxTurns ELSE n

\* the request of line 139 on the site: the page catalog_url names comes
\* back, and line 250 makes the href of its pager-next the next catalog_url
SiteFetch(fault) ==
    /\ walk.pc = "w_request"
    /\ walk.site # <<>>
    /\ LET pg == walk.site[walk.catalog_url] IN
         /\ fault = "rowraise" => pg.kind = "rows"
         /\ \E i \in (IF fault = "rowraise" THEN 0..Len(pg.rows) ELSE {0}) :
               LET w == fetched(walk, Served(pg), fault, i) IN
                 walk' = [w EXCEPT !.page_count = Followed(@),
                                   !.nfetched = Followed(@),
                                   !.catalog_url = IF w.pc = "w_loop" THEN pg.next
                                                   ELSE @]
    /\ UNCHANGED <<flag, walkframe>>

NextSite ==
    \/ \E site \in Sites : WalkStart(NoLimit, NoLimit, site, "none")
    \/ \E fault \in LogFaults : WalkTurn(fault)
    \/ \E fault \in WalkFaults : SiteFetch(fault)

\* the worker thread runs the loop on: a turn that can be taken is taken
SpecSite == InitStarted /\ [][NextSite]_vars /\ WF_vars(NextSite)

(* ------------------------ status values -------------------------------- *)
\* the values written for a finished run: "completed" by parse_catalog,
\* "complete" by continue_parse; both are read as the complete state
Complete == {"complete", "completed"}
\* the ends of a save_to_db call that lie behind conn.commit() of line 359
Committing == {"commit", "logerror", "lograise"}
\* the ends of a save_to_db call that are an exception, not a return
Raising == {"lograise", "sqlraise", "flagraise", "titleraise", "loopflagraise"}
Terminal == Complete \cup {"canceled", "error"}
\* the sites of lines 318-319
ErrorPcs == {"p_err_status", "p_err_cleanup"}

(* ======================== properties =================================== *)

\* C1: once the persisted status of the session is terminal (complete,
\* canceled or error), no later write changes it to another value.
C1_TerminalStatusIsFinal ==
    [][session.status \in Terminal => session'.status = session.status]_vars

\* C2: when a cancel request sets the flag while a worker is inside the
\* ingestion loop, no product is written after the worker's next checkpoint,
\* and the status the session ends with is canceled.  Stated for the runs in
\* which the database raised no error.
C2_CancelInLoopStopsWrites ==
    /\ [][hist.ckptAfter /\ ~hist'.dbFault => nwrites' = nwrites]_vars
    /\ [](hist.cancelInLoop /\ Quiescent /\ ~hist.dbFault =>
             session.status = "canceled")

\* C3: in one_catalog mode a walk of at most 5 URLs goes on to ingestion and
\* the session never is in awaiting_confirmation; a walk of 6 or more URLs
\* stores them as product_urls with status awaiting_confirmation, the worker
\* returns, and nothing is written before a confirm request starts
\* continue_parse.  What the row holds is stated for the runs in which the
\* database took the writes of the row (no write of it raised sqlite3.Error);
\* that nothing is ingested before a confirm is stated for all runs.
C3_GateAtSixInOneCatalog ==
    job.mode = "one_catalog" =>
      /\ hist.walkLen <= Threshold =>
            /\ ~hist.gated
            /\ session.status # "awaiting_confirmation"
            /\ run.pc # "o_gate"
            /\ run.walked /\ hist.walkLen > 0 /\ run.exc = "none" =>
                  run.pc \in LoopPcs \cup {"p_completed", "p_finally"}
      /\ hist.walkLen > Threshold =>
            /\ run.pc \notin LoopPcs \cup {"p_completed"}
            /\ ~hist.confirmed => nwrites = 0
            /\ ~hist.dbFault =>
                  /\ run.pc \in {"o_gate", "p_finally", "done"}
                  /\ run.pc # "o_gate" => hist.gated
                  /\ run.pc = "p_finally" /\ ~hist.cancelRequested /\ ~hist.confirmed =>
                        /\ session.status = "awaiting_confirmation"
                        /\ session.product_urls = run.urls
                        /\ Len(session.product_urls) = hist.walkLen

\* C3 witness: a walk of 6 URLs has put the session to awaiting_confirmation,
\* the worker has returned and nothing has been written
C3_Witness ==
    /\ job.mode = "one_catalog"
    /\ hist.walkLen = Threshold + 1
    /\ run.pc = "done"
    /\ session.status = "awaiting_confirmation"
    /\ Len(session.product_urls) = Threshold + 1
    /\ nwrites = 0

\* C4: in all_catalogs mode the gate comes before any ingestion: the session
\* is in awaiting_confirmation with no product written.
C4_AllCatalogsGateBeforeWrites ==
    job.mode = "all_catalogs" /\ hist.gated /\ ~hist.confirmed => nwrites = 0

\* C5: the status is set to complete only by a run whose loop attempted every
\* URL and during whose loop no cancel request was made.
C5_CompleteOnlyWithoutCancel ==
    [][/\ run.pc = "p_completed" /\ run'.pc # run.pc =>
             ~run.stopped /\ ~hist.cancelInLoop
       /\ \A w \in BagToSet(reqs) :
             w.pc = "k_complete" /\ reqs' = Stepped(reqs, w, [w EXCEPT !.pc = "k_finally"]) =>
                ~w.stopped /\ ~hist.cancelInLoop]_vars

\* C6: a started session does not stay in_progress once the orchestrator has
\* returned: with no thread running, the status is awaiting_confirmation or
\* terminal.  Stated for the runs in which the database raised no error.
C6_NoRunEndsInProgress ==
    job.mode # "none" /\ Quiescent /\ ~hist.dbFault =>
        session.status \in Terminal \cup {"awaiting_confirmation"}

\* C7: a single_item run in which fetch_product_page took one of its
\* "return None" paths (and no cancel was requested) reports failure with
\* zero products, and the status is complete when the run returns.  Stated
\* for the runs in which the database raised no error.
C7_SingleItemNullStillCompletes ==
    /\ job.mode = "single_item"
    /\ run.gotNone \/ run.outcome = "neterr"
    /\ ~hist.cancelRequested
    /\ ~hist.dbFault
    /\ run.pc = "p_finally"
    => /\ ~run.rsuccess
       /\ run.processed = 0
       /\ session.status \in Complete

\* C8: a catalog job in which an item failed, without a loop-aborting
\* exception and without a cancel, ends with status complete.
C8_PartialSuccessIsComplete ==
    /\ job.mode \in {"one_catalog", "all_catalogs"}
    /\ Quiescent
    /\ hist.itemFailed
    /\ ~hist.cancelRequested
    /\ session.status \notin {"error", "awaiting_confirmation"}
    => session.status \in Complete

\* C9: a network failure of a product fetch is a per-item failure: it does
\* not put the status to error and does not start the cleanup.
C9_NetworkFailureIsPerItem ==
    run.outcome = "neterr" /\ ~hist.cancelRequested =>
        /\ run.pc \notin ErrorPcs
        /\ session.status # "error"
        /\ ncleanups = 0

\* C10: a one_catalog walk that returns zero URLs is a valid outcome: the
\* status does not become error and the cleanup is not started.
C10_EmptyWalkIsNotAnError ==
    job.mode = "one_catalog" /\ hist.walkLen = 0 /\ ~hist.cancelRequested =>
        /\ run.pc \notin ErrorPcs
        /\ session.status # "error"
        /\ ncleanups = 0

\* C11: a confirm or decline request takes effect (continue_parse rewrites
\* the row and goes on to ingestion; decline sets the flag and cancels) only
\* while the status is awaiting_confirmation, also when several confirm /
\* decline requests are handled at once.  Stated for the runs in which every
\* request received so far is a confirm or decline still being handled, so
\* that no cancel request is involved.
C11_ConfirmOnlyWhenAwaiting ==
    [][\A w \in BagToSet(reqs) :
          /\ BagCardinality(reqs) = nreq
          /\ \A v \in BagToSet(reqs) : v.kind \in {"confirm", "decline"}
          /\ \/ w.pc = "k_update" /\ reqs' = Stepped(reqs, w, [w EXCEPT !.pc = "k_readcat"])
             \/ w.pc = "d_set" /\ reqs' = Stepped(reqs, w, [w EXCEPT !.pc = "x_status"])
          => session.status = "awaiting_confirmation"]_vars

\* C12: at every moment at most one thread is inside the ingestion loop of
\* parse_product_urls for the session.
C12_OneWorkerPerSession ==
    LET inLoop == {w \in BagToSet(reqs) : w.pc \in LoopPcs} IN
      (IF run.pc \in LoopPcs THEN 1 ELSE 0)
        + BagCardinality([w \in inLoop |-> CopiesIn(w, reqs)]) <= 1

\* lines 380-381 of parse_product_urls: url and cat of a list item.  A tuple
\* gives its two parts; anything else is passed whole as the url, with the
\* category argument as cat
ResolveItem(item, category) ==
    IF item.kind = "tuple"
    THEN [url |-> [kind |-> "str", u |-> item.url, c |-> 0], cat |-> item.cat]
    ELSE [url |-> [kind |-> item.kind, u |-> item.url, c |-> item.cat],
          cat |-> category]

\* C13: the list a resumed worker ingests is the list handed to
\* update_session_status at the gate, of the same length and order, and the
\* loop resolves each element to the same (url, category) as the element
\* that was stored.  Compared while the thread that stored the list still
\* holds it.
C13_PendingRoundTrip ==
    \A w \in BagToSet(reqs) :
        w.kind = "confirm" /\ w.pc \in LoopPcs /\ hist.gated /\ run.pc = "p_finally" =>
            LET stored == IF job.mode = "one_catalog" THEN run.urls
                          ELSE [k \in DOMAIN run.caturls |->
                                   TupleItem(run.caturls[k], run.ci)]
            IN /\ Len(w.urls) = Len(stored)
               /\ \A k \in DOMAIN stored :
                     ResolveItem(w.urls[k], w.category)
                        = ResolveItem(stored[k], w.category)

\* C14: the steps of a cancel or decline request (the flag set, the
\* cleanup_incomplete pass, the flag removed) leave every committed product
\* row and variant row present and unchanged.
C14_CancelLeavesCommittedRows ==
    [][last'.op \in {"cancel_set", "cleanup", "cancel_pop"} => db' = db]_vars

\* C14 witness: the cleanup pass has just run over tables that hold a
\* committed product and a committed variant
C14_Witness ==
    /\ last.op = "cleanup"
    /\ db.products # {}
    /\ db.variants # {}

\* C19: every save_to_db call leaves at most one product row per URL; a call
\* that commits leaves the row of its URL holding the values of that call,
\* and a call that does not commit leaves the row of its URL as it was, so
\* that after any sequence of saves the row holds the values of the last
\* save that went through.
C19_UpsertKeepsOneRow ==
    [][last'.op = "save" =>
         /\ \A u \in StoreUrls : Cardinality(RowsOf(db', u)) <= 1
         /\ last'.ok => last'.path = "commit"
         /\ last'.path \in Committing =>
               \E p \in db'.products :
                  /\ RowsOf(db', last'.url) = {p}
                  /\ p.title = last'.title
         /\ last'.path \notin Committing =>
               RowsOf(db', last'.url) = RowsOf(db, last'.url)]_vars

\* C19 witness: a successful save has replaced the values of an existing row
\* by different ones
C19_Witness ==
    /\ last.op = "save"
    /\ last.ok
    /\ last.prev \notin {"absent", last.title}
    /\ \E p \in db.products : p.url = last.url /\ p.title = last.title

\* C20: save_to_db called with a product whose title is missing, empty or the
\* not-found sentinel returns False and changes neither table; no product
\* row ever holds such a title.
C20_TitlelessProductRejected ==
    /\ [][last'.op = "save" /\ last'.title \in {"none", "", "notfound"} =>
             ~last'.ok /\ db' = db]_vars
    /\ [](\A p \in db.products : p.title \notin {"none", "", "notfound"})

\* C20 witness: a call with an empty title has returned False at the title
\* test, over tables that hold a product
C20_Witness ==
    /\ last.op = "save"
    /\ last.title = ""
    /\ last.path = "title"
    /\ ~last.ok
    /\ db.products # {}

\* C15: with a product limit N >= 0 the walker's list never is longer than N,
\* and once the N-th URL is collected the walk is over: no further row is
\* processed and no further page requested.
C15_WalkerRespectsLimit ==
    walk.max_products # NoLimit =>
        /\ Len(walk.product_urls) <= walk.max_products
        /\ Len(walk.product_urls) = walk.max_products /\ walk.max_products > 0 =>
              walk.pc = "w_done"

\* C16: the walker's list holds every product URL the processed rows have
\* shown exactly once, in the order of first discovery, and a URL shown again
\* does not count toward the limit: a walk that returns on the limit N
\* returns N distinct URLs.
C16_WalkerListsEachUrlOnce ==
    /\ walk.product_urls = [k \in 1..walk.ndisc |-> k]
    /\ walk.how = "limit" /\ walk.max_products >= 1 =>
          Len(walk.product_urls) = walk.max_products

\* C16 witness: with the limit 2, a later page has shown the first URL once
\* more and then a new one, and the walk has returned the two URLs
C16_Witness ==
    /\ walk.pc = "w_done"
    /\ walk.how = "limit"
    /\ ~walk.raised
    /\ walk.max_products = 2
    /\ walk.nfetched >= 2
    /\ walk.rows = <<1, -1>>
    /\ walk.product_urls = <<1, 2>>

\* C17: with no page limit and no product limit, a walk that ends on a
\* failed request or on a page without table, tbody or rows returns, without
\* raising, the URLs collected before that page, and a walk that ends on an
\* absent or unusable next-page control returns, without raising, the URLs
\* of all pages processed, that page included.
C17_WalkEndsWithCollected ==
    [][/\ walk.pc = "w_request" /\ walk'.pc = "w_done"
       /\ walk.max_pages = NoLimit /\ walk.max_products = NoLimit
       /\ walk'.how \in {"fetchfail", "notable", "notbody", "norows",
                          "nonext", "nolink"}
       => /\ ~walk'.raised
          /\ walk'.how \in {"fetchfail", "notable", "notbody", "norows"} =>
                walk'.product_urls = walk.product_urls
          /\ walk'.how \in {"nonext", "nolink"} =>
                /\ walk'.product_urls = [k \in 1..walk'.ndisc |-> k]
                /\ walk'.page_count = walk.page_count + 1]_vars

\* C18: once the cancel flag has been set during a walk, the walker requests
\* no further catalog page: a walker that comes to the head of a turn of its
\* loop, where the flag is tested (line 125), after the flag was set does
\* not go on to the request of a page.  A request whose flag test the walker
\* had passed when the flag was set is not counted.
C18_NoPageAfterCancel ==
    [][walk.flagSet /\ walk.pc = "w_loop" => walk'.pc # "w_request"]_vars

\* C21: a save_to_db call whose variant batch fails persists none of the
\* batch: after a call that committed the variants table holds the rows it
\* held before together with the row of every variant of the batch, and
\* after any other call both tables are what they were before the call.
C21_VariantBatchAllOrNothing ==
    [][last'.op = "save" =>
         IF last'.path \in Committing
         THEN db'.variants =
                 db.variants \cup {[product_id |-> product_id(db', last'.url),
                                    key |-> k, is_complete |-> 1] : k \in 1..last'.nvar}
         ELSE db' = db]_vars

\* C21 witness: executemany has failed on a batch of two variants for a
\* stored product that holds one variant, and the call has returned False
C21_Witness ==
    /\ last.op = "save"
    /\ last.path = "sqlerror"
    /\ last.nvar = 2
    /\ ~last.ok
    /\ {v.key : v \in VariantsOf(db, last.url)} = {1}

\* C22: a cleanup_incomplete pass deletes every product row with
\* is_complete = 0 and every variant row of those products, and leaves every
\* product row with is_complete = 1 and all of its variant rows (complete or
\* not) as they were; it adds no row.  A call whose DELETE the database
\* refuses (sqlite3.Error, the file locked by another connection) ends with
\* the exception and is no pass.
C22_CleanupDeletesIncompleteOnly ==
    [][last'.op = "cleanup" /\ last'.path # "sqlraise" =>
         /\ db'.products \subseteq db.products
         /\ db'.variants \subseteq db.variants
         /\ \A p \in db.products :
               LET mine(vars2) == {v \in vars2 : v.product_id = p.id} IN
                 IF p.is_complete = 0
                 THEN p \notin db'.products /\ mine(db'.variants) = {}
                 ELSE p \in db'.products /\ mine(db'.variants) = mine(db.variants)]_vars

\* C22 witness: the pass has run over a file whose first product was
\* incomplete and whose second product is complete with an incomplete
\* variant: the first is gone, the second is there with its variant
C22_Witness ==
    /\ last.op = "cleanup"
    /\ db.products = {[id |-> 2, url |-> 2, title |-> "a", is_complete |-> 1]}
    /\ db.variants = {[product_id |-> 2, key |-> 1, is_complete |-> 0]}

\* C23: cleanup_incomplete is invoked for the session only with the status
\* of the session set to error: every step that makes the call leaves the
\* status at error, never at canceled, complete, awaiting_confirmation or
\* in_progress.
C23_CleanupOnlyAfterError ==
    [][ncleanups' # ncleanups => session'.status = "error"]_vars

\* C24: a failure that leaves the try block of parse_catalog, whatever the
\* type of its exception, sets the status to error and runs the
\* cleanup_incomplete pass before the worker ends: a worker that has raised
\* goes to its end only from the cleanup step of an error handler (that of
\* parse_catalog or that of run_parse).  Stated for the failures raised
\* inside the try block: not for line 87, which stands before it, and not
\* for a status write of an error handler that raises itself.
C24_EscapedFailureIsError ==
    [][/\ run'.exc # "none" /\ run'.pc = "p_finally"
       /\ run.pc \notin {"p_finally", "p_start", "p_err_status", "r_err_status"}
       => run.pc \in {"p_err_cleanup", "r_err_cleanup"} /\ ncleanups' > 0]_vars

\* C25: the parse_sessions table holds at most one row per session id at all
\* times, and a call of update_session_status for an id that has a row
\* leaves created_at at the value the first call wrote.
C25_OneRowCreatedAtKept ==
    /\ [](\A sid \in SessionIds :
             Cardinality({r \in parse_sessions : r.session_id = sid}) <= 1)
    /\ [][\A r \in parse_sessions :
             \E q \in parse_sessions' :
                 q.session_id = r.session_id /\ q.created_at = r.created_at]_vars

\* C25 witness: the row of a session has been rewritten with another status
\* two minutes after the first call, and created_at still is the first minute
C25_Witness ==
    \E r \in parse_sessions :
        /\ r.status = "canceled"
        /\ r.created_at = 1
        /\ r.updated_at = 3
        /\ Cardinality(parse_sessions) = 2

\* C26: every access to the cancellation-flag map is made with cancel_lock
\* held.  Checked for the writes of a started job: a step that changes the
\* flag is the step of a thread at a statement inside "with cancel_lock".
C26_FlagAccessUnderLock ==
    [][job.mode # "none" /\ flag' # flag =>
          \E a \in Actors :
              /\ a.rec.pc \in LockHeldAt
              /\ IF a.who = "run" THEN run' # run
                 ELSE CopiesIn(a.rec, reqs') < CopiesIn(a.rec, reqs)]_vars

\* C27: whenever no worker thread and no request handler is running, the
\* flag map holds no entry for the session if its persisted status is
\* terminal, after any sequence of parse, cancel, confirm and decline
\* requests.
C27_NoFlagLeftAtRest ==
    Quiescent /\ session.status \in Terminal => flag = "absent"

\* the state a row stands for: the value of its status column, and for the
\* status in_progress the value of its progress column (lines 87, 165-167)
StateOfRow(row) == IF row.status = "in_progress" THEN row.progress ELSE row.status

\* C28: the persisted state of the session is at all times one of
\* collecting_urls, awaiting_confirmation, parsing_products, complete,
\* canceled, error; a job that finishes without the gate and a job that
\* finishes after a confirm both end with the value complete.
C28_StatusIsOneOfSix ==
    job.mode # "none" =>
        StateOfRow(session) \in {"collecting_urls", "awaiting_confirmation",
                                 "parsing_products", "complete", "canceled", "error"}

\* C29: in all_catalogs mode with an overall product limit N the URLs
\* collected over all catalogs never number more than N.  Checked at the
\* return of the walk of the second catalog: the URLs the walk of the first
\* catalog returned (cat_urls holds them until line 236 assigns the new
\* list) and the URLs this walk returns are together at most N.
C29_AllCatalogsCollectAtMostLimit ==
    [][/\ job.mode = "all_catalogs" /\ job.max_products # NoLimit
       /\ run.pc = "a_walk" /\ run.ci = 2 /\ run'.pc # "a_walk"
       => Len(run.caturls) + Len(run'.caturls) <= job.max_products]_vars

\* C30: in all_catalogs mode with no product limit given, every known
\* catalog is walked and the run does not end in error on account of the
\* missing limit: with categories found and no cancel request the worker
\* does not enter the error handler before a catalog was walked.
C30_NoLimitAllCatalogsWalks ==
    /\ job.mode = "all_catalogs" /\ job.max_products = NoLimit
    /\ run.ncats > 0 /\ ~hist.cancelRequested /\ ~run.walked
    => run.pc \notin ErrorPcs /\ session.status # "error"

\* C31: when an all_catalogs job enters awaiting_confirmation, the stored
\* list holds no URL that was already ingested.  The gate is entered right
\* after the product of the URL caturls[cj] was saved (that save took
\* total_processed past 5), so that URL must not be in the list written.
C31_AllGateStoresOnlyPending ==
    [][run.pc = "a_gate" /\ run'.pc = "p_finally" =>
          \A k \in DOMAIN session'.product_urls :
              session'.product_urls[k].url # run.caturls[run.cj]]_vars

\* what C32 asks of a step of a thread inside the loop, from record r to r2:
\* the checkpoint with the flag not set goes on to the item it stands at;
\* the item, whatever its outcome, is followed (for an item that passed the
\* tests of save_to_db, after its commit) by the next item of the same list,
\* and after the last item the loop ends without an exception
C32_StepInOrder(r, r2) ==
    IF r.pc = "l_check"
    THEN cancel_requested(flag)
            \/ (r2.pc = "l_item" /\ r2.i = r.i /\ r2.urls = r.urls)
    ELSE IF r2.pc = "l_commit"
    THEN r.pc = "l_item" /\ r2.i = r.i /\ r2.urls = r.urls
    ELSE IF r.i < Len(r.urls)
    THEN r2.pc = "l_check" /\ r2.i = r.i + 1 /\ r2.urls = r.urls
    ELSE r2.pc \notin ErrorPcs /\ r2.exc = "none"

\* C32: in the ingestion loop the failure of an item never leaves the loop
\* and never keeps the remaining URLs from being attempted: absent
\* cancellation every URL of the list is attempted once, in list order.
C32_LoopAttemptsEveryUrl ==
    [][/\ run.pc \in LoopPcs /\ run' # run => C32_StepInOrder(run, run')
       /\ \A w \in BagToSet(reqs) :
             w.pc \in LoopPcs /\ CopiesIn(w, reqs') < CopiesIn(w, reqs) =>
                \E r2 \in BagToSet(reqs') :
                    /\ CopiesIn(r2, reqs') > CopiesIn(r2, reqs)
                    /\ C32_StepInOrder(w, r2)]_vars

\* the threads inside the with block of save_to_db, cleanup_incomplete or
\* update_session_status, their transaction begun
C33_InSection ==
    {t \in ThreadIds : /\ threads[t].op \in SectionOps
                       /\ threads[t].pc \in {"inside", "logging", "done"}
                       /\ threads[t].tx # "none"}

\* C33: the critical sections of save_to_db, cleanup_incomplete and
\* update_session_status exclude each other: at most one thread at a time is
\* inside one of them, so that their write transactions never overlap; no
\* thread leaves one with its transaction open; and the tables and the row
\* of the session change only by the commit of one of them, which makes the
\* whole write of the transaction visible at once (a transaction that fails
\* leaves nothing behind).
C33_OneWriteTransactionAtATime ==
    /\ [](Cardinality(C33_InSection) <= 1)
    /\ [](\A t \in ThreadIds :
             threads[t].op \in SectionOps /\ threads[t].pc \in {"done", "idle"}
                => threads[t].tx # "open")
    /\ [][db' # db \/ session' # session =>
            \E t \in ThreadIds :
                /\ threads[t].op \in SectionOps
                /\ C33_InSection = {t}
                /\ threads[t].tx = "open" /\ threads'[t].tx = "committed"
                /\ db' = IF threads[t].op = "save_to_db" THEN SavedProduct(db)
                         ELSE IF threads[t].op = "cleanup_incomplete"
                         THEN cleanup_incomplete(db)
                         ELSE db
                /\ threads[t].op # "update_session_status" => session' = session]_vars

\* C33 witness: one thread is inside save_to_db with its transaction open,
\* another stands at the with statement of update_session_status and waits
\* for db_lock, and the row of the session and the products table have been
\* written by transactions before
C33_Witness ==
    \E t, u \in ThreadIds :
        /\ threads[t].op = "save_to_db" /\ threads[t].pc = "inside"
        /\ threads[t].tx = "open"
        /\ locks.db_lock = t
        /\ threads[u].op = "update_session_status" /\ threads[u].pc = "enter"
        /\ session.status = "canceled"
        /\ db.products # {}

\* C40: a thread that waits for db_lock or cancel_lock holds neither of them
\* (so no thread waits for one of the two locks while it holds the other and
\* no two threads wait for each other), and a thread that has left a
\* function, by its end, a return or an exception, owns no lock.
C40_NoNestedLocksAllReleased ==
    \A t \in ThreadIds :
        /\ WaitsFor(t) # "none" => HeldBy(t) = {}
        /\ threads[t].pc = "idle" => HeldBy(t) = {}
        /\ \A u \in ThreadIds :
              ~(/\ u # t
                /\ WaitsFor(t) # "none" /\ WaitsFor(u) # "none"
                /\ locks[WaitsFor(t)] = u /\ locks[WaitsFor(u)] = t)
\* C40 witness: save_to_db has committed and then left by the exception of
\* its log_message calls in one thread, which is back with no lock in its
\* hands, while another thread is inside a checkpoint, holds cancel_lock
\* and stands at its log_message call
C40_Witness ==
    \E t, u \in ThreadIds :
        /\ threads[t].pc = "idle" /\ threads[t].raised
        /\ threads[t].op = "save_to_db" /\ threads[t].tx = "committed"
        /\ HeldBy(t) = {}
        /\ threads[u].pc = "logging" /\ threads[u].op = "checkpoint"
        /\ locks.cancel_lock = u
        /\ locks.db_lock = 0

\* C34: whenever the persisted status of the session is terminal (complete,
\* completed, canceled or error), the persisted list of pending URLs is
\* empty, also after a gate or a confirm had written a non-empty list.
C34_TerminalHasNoPending ==
    session.status \in Terminal => get_session_status(session).product_urls = <<>>
\* the gate had stored its list, a confirm had rewritten it and the resumed
\* worker has written complete
C34_Witness ==
    /\ hist.gated /\ hist.confirmed
    /\ session.status = "complete"
    /\ get_session_status(session).product_urls = <<>>

\* C35: whenever the persisted status of the session is
\* awaiting_confirmation, the persisted list of pending URLs holds more than
\* Threshold entries, in one_catalog and in all_catalogs mode.
C35_GateListAboveThreshold ==
    session.status = "awaiting_confirmation" =>
        Len(get_session_status(session).product_urls) > Threshold

\* C36: the category_name stored in the row when the job is created is the
\* stored category_name after every later write of the row.
C36_CategoryNameKept ==
    job.mode # "none" => session.category_name = job.category

\* C37: every save_to_db call that returns False leaves the products table
\* and the variants table exactly as they were before the call.
C37_FalseReturnChangesNothing ==
    [][last'.op = "save" /\ ~last'.ok /\ last'.path \notin Raising => db' = db]_vars

\* C38: with no page limit, no product limit and no cancel request the
\* walker, once in its loop, comes to return its list, also on a site whose
\* pager-next link points to a page already visited.
C38_WalkTerminates == (walk.pc = "w_loop") ~> (walk.pc = "w_done")

\* C39: a parse_product_urls call of the worker returns success = true only
\* if it has fetched and saved every URL of its list; a call that stopped at
\* a cancellation checkpoint does not return success = true.
C39_SuccessMeansAllSaved ==
    [][run.pc \in LoopPcs /\ run'.pc \notin LoopPcs /\ run'.success =>
          run'.processed = Len(run'.urls) /\ ~run'.stopped]_vars
====
